---- MODULE Spec2Model ----
(***************************************************************************)
(* Model of services/fontService.ts: the side-bearing primitive setGlyphSB,*)
(* the two spacing methods (applyTracyMethod, applySousaMethod), the       *)
(* binary sanitizer stripLayoutTables, the metrics of createFontState,     *)
(* the two exports createFontUrl and downloadFont, calculateAverageSB and  *)
(* cleanMetrics.                                                           *)
(*                                                                         *)
(* Numbers.  Font coordinates, advance widths and side bearings are        *)
(* fixed-point integers: one model unit is 1/Scale font unit, so that the  *)
(* guard Math.abs(shift) > 0.001 of setGlyphSB is a real comparison and a  *)
(* CFF outline with fractional coordinates is a font of the model.         *)
(* Arithmetic is exact; the IEEE doubles of the program agree with it on   *)
(* every value used here (the products h * 1.15, h * 0.85, ... round the   *)
(* same way for the master values drawn from MasterValues).                *)
(*                                                                         *)
(* Characters are strings: an ASCII character is itself ("H"), any other   *)
(* character is written by its code point ("U+00C1").                      *)
(***************************************************************************)
EXTENDS Integers, Sequences, FiniteSets, TLC

VARIABLES
    font,     \* the OpenTypeFont object the functions mutate in place
    font0,    \* the font as parsed, before any mutation (history)
    last,     \* the last call made: its name and its arguments (history)
    steps,    \* number of calls made so far
    buffer,   \* stripLayoutTables: the caller's ArrayBuffer
    clean,    \* stripLayoutTables: the buffer it returned
    result,   \* what the last call handed back to its caller, where a
              \* claim reads it (metrics, a URL, an error)
    lib       \* the opentype.js build in use: what its Path.getBoundingBox
              \* gives for a path without points ("NaN" or "zero")

vars == <<font, font0, last, steps, buffer, clean, result, lib>>

---------------------------------------------------------------------------
(* Numbers *)

\* model units per font unit (resolution of the 0.001 epsilon)
Scale == 1000

\* the epsilon 0.001 of setGlyphSB, in model units
Eps == 1

U(n) == n * Scale

Abs(v) == IF v < 0 THEN -v ELSE v

Max(a, b) == IF a >= b THEN a ELSE b

Min(a, b) == IF a <= b THEN a ELSE b

\* Math.round(num / den): the nearest integer (in font units), a tie going up
MathRound(num, den) == ((2 * num + den * Scale) \div (2 * den * Scale)) * Scale

\* an optional number: null is the empty tuple
Null == <<>>

Some(v) == <<v>>

---------------------------------------------------------------------------
(* Static tables *)

BaseLetters ==
    {"A","B","C","D","E","F","G","H","I","J","K","L","M",
     "N","O","P","Q","R","S","T","U","V","W","X","Y","Z",
     "a","b","c","d","e","f","g","h","i","j","k","l","m",
     "n","o","p","q","r","s","t","u","v","w","x","y","z"}

UpperLetters ==
    {"A","B","C","D","E","F","G","H","I","J","K","L","M",
     "N","O","P","Q","R","S","T","U","V","W","X","Y","Z"}

\* Object.keys(TOPOLOGY): the keys in insertion order
TopologyKeys ==
    <<"A","B","C","D","E","F","G","H","I","J","K","L","M",
      "N","O","P","Q","R","S","T","U","V","W","X","Y","Z",
      "a","b","c","d","e","f","g","h","i","j","k","l","m",
      "n","o","p","q","r","s","t","u","v","w","x","y","z">>

DIACRITICS_MAP ==
    [c \in BaseLetters |->
        CASE
           c = "A" -> <<"U+00C1", "U+00C0", "U+00C2", "U+00C4", "U+00C3", "U+00C5", "U+0100", "U+0102", "U+0104", "U+01CD", "U+01FA">>
        [] c = "B" -> <<"U+1E02", "U+1E04">>
        [] c = "C" -> <<"U+00C7", "U+0106", "U+0108", "U+010A", "U+010C">>
        [] c = "D" -> <<"U+010E", "U+0110", "U+1E0C", "U+1E0A", "U+1E10">>
        [] c = "E" -> <<"U+00C9", "U+00C8", "U+00CA", "U+00CB", "U+0112", "U+0114", "U+0116", "U+0118", "U+011A">>
        [] c = "F" -> <<"U+1E1E">>
        [] c = "G" -> <<"U+011C", "U+011E", "U+0120", "U+0122", "U+01E6">>
        [] c = "H" -> <<"U+0124", "U+0126", "U+1E22", "U+1E24">>
        [] c = "I" -> <<"U+00CD", "U+00CC", "U+00CE", "U+00CF", "U+0128", "U+012A", "U+012C", "U+012E", "U+0130">>
        [] c = "J" -> <<"U+0134">>
        [] c = "K" -> <<"U+0136", "U+01E8", "U+1E30", "U+1E32">>
        [] c = "L" -> <<"U+0139", "U+013B", "U+013D", "U+013F", "U+0141", "U+1E36", "U+1E38">>
        [] c = "M" -> <<"U+1E3E", "U+1E40", "U+1E42">>
        [] c = "N" -> <<"U+00D1", "U+0143", "U+0145", "U+0147", "U+1E44", "U+1E46">>
        [] c = "O" -> <<"U+00D3", "U+00D2", "U+00D4", "U+00D6", "U+00D5", "U+00D8", "U+014C", "U+014E", "U+0150", "U+01D1", "U+01FE">>
        [] c = "P" -> <<"U+1E54", "U+1E56">>
        [] c = "Q" -> <<>>
        [] c = "R" -> <<"U+0154", "U+0156", "U+0158", "U+1E58", "U+1E5A">>
        [] c = "S" -> <<"U+015A", "U+015C", "U+015E", "U+0160", "U+0218", "U+1E60", "U+1E62">>
        [] c = "T" -> <<"U+0162", "U+0164", "U+0166", "U+021A", "U+1E6A", "U+1E6C">>
        [] c = "U" -> <<"U+00DA", "U+00D9", "U+00DB", "U+00DC", "U+0168", "U+016A", "U+016C", "U+016E", "U+0170", "U+0172", "U+01D3", "U+01D5", "U+01D7", "U+01D9", "U+01DB">>
        [] c = "V" -> <<"U+1E7C", "U+1E7E">>
        [] c = "W" -> <<"U+0174", "U+1E80", "U+1E82", "U+1E84">>
        [] c = "X" -> <<"U+1E8A", "U+1E8C">>
        [] c = "Y" -> <<"U+00DD", "U+0176", "U+0178", "U+0232", "U+1E8E", "U+1EF2">>
        [] c = "Z" -> <<"U+0179", "U+017B", "U+017D", "U+1E92">>
        [] c = "a" -> <<"U+00E1", "U+00E0", "U+00E2", "U+00E4", "U+00E3", "U+00E5", "U+0101", "U+0103", "U+0105", "U+01CE", "U+01FB">>
        [] c = "b" -> <<"U+1E03", "U+1E05">>
        [] c = "c" -> <<"U+00E7", "U+0107", "U+0109", "U+010B", "U+010D">>
        [] c = "d" -> <<"U+010F", "U+0111", "U+1E0D", "U+1E0B", "U+1E11">>
        [] c = "e" -> <<"U+00E9", "U+00E8", "U+00EA", "U+00EB", "U+0113", "U+0115", "U+0117", "U+0119", "U+011B">>
        [] c = "f" -> <<"U+1E1F">>
        [] c = "g" -> <<"U+011D", "U+011F", "U+0121", "U+0123", "U+01E7">>
        [] c = "h" -> <<"U+0125", "U+0127", "U+1E23", "U+1E25">>
        [] c = "i" -> <<"U+00ED", "U+00EC", "U+00EE", "U+00EF", "U+0129", "U+012B", "U+012D", "U+012F", "U+0131">>
        [] c = "j" -> <<"U+0135">>
        [] c = "k" -> <<"U+0137", "U+01E9", "U+1E31", "U+1E33">>
        [] c = "l" -> <<"U+013A", "U+013C", "U+013E", "U+0140", "U+0142", "U+1E37", "U+1E39">>
        [] c = "m" -> <<"U+1E3F", "U+1E41", "U+1E43">>
        [] c = "n" -> <<"U+00F1", "U+0144", "U+0146", "U+0148", "U+1E45", "U+1E47">>
        [] c = "o" -> <<"U+00F3", "U+00F2", "U+00F4", "U+00F6", "U+00F5", "U+00F8", "U+014D", "U+014F", "U+0151", "U+01D2", "U+01FF">>
        [] c = "p" -> <<"U+1E55", "U+1E57">>
        [] c = "q" -> <<>>
        [] c = "r" -> <<"U+0155", "U+0157", "U+0159", "U+1E59", "U+1E5B">>
        [] c = "s" -> <<"U+015B", "U+015D", "U+015F", "U+0161", "U+0219", "U+1E61", "U+1E63">>
        [] c = "t" -> <<"U+0163", "U+0165", "U+0167", "U+021B", "U+1E6B", "U+1E6D">>
        [] c = "u" -> <<"U+00FA", "U+00F9", "U+00FB", "U+00FC", "U+0169", "U+016B", "U+016D", "U+016F", "U+0171", "U+0173", "U+01D4", "U+01D6", "U+01D8", "U+01DA", "U+01DC">>
        [] c = "v" -> <<"U+1E7D", "U+1E7F">>
        [] c = "w" -> <<"U+0175", "U+1E81", "U+1E83", "U+1E85">>
        [] c = "x" -> <<"U+1E8B", "U+1E8D">>
        [] c = "y" -> <<"U+00FD", "U+00FF", "U+0177", "U+0233", "U+1E8F", "U+1EF3">>
        [] c = "z" -> <<"U+017A", "U+017C", "U+017E", "U+1E93">>
    ]

TOPOLOGY ==
    [c \in BaseLetters |->
        CASE
           c = "A" -> [l |-> "V", r |-> "V"]
        [] c = "B" -> [l |-> "S", r |-> "R"]
        [] c = "C" -> [l |-> "R", r |-> "S"]
        [] c = "D" -> [l |-> "S", r |-> "R"]
        [] c = "E" -> [l |-> "S", r |-> "S"]
        [] c = "F" -> [l |-> "S", r |-> "S"]
        [] c = "G" -> [l |-> "R", r |-> "S"]
        [] c = "H" -> [l |-> "S", r |-> "S"]
        [] c = "I" -> [l |-> "S", r |-> "S"]
        [] c = "J" -> [l |-> "V", r |-> "S"]
        [] c = "K" -> [l |-> "S", r |-> "V"]
        [] c = "L" -> [l |-> "S", r |-> "V"]
        [] c = "M" -> [l |-> "S", r |-> "S"]
        [] c = "N" -> [l |-> "S", r |-> "S"]
        [] c = "O" -> [l |-> "R", r |-> "R"]
        [] c = "P" -> [l |-> "S", r |-> "R"]
        [] c = "Q" -> [l |-> "R", r |-> "R"]
        [] c = "R" -> [l |-> "S", r |-> "V"]
        [] c = "S" -> [l |-> "V", r |-> "V"]
        [] c = "T" -> [l |-> "V", r |-> "V"]
        [] c = "U" -> [l |-> "S", r |-> "S"]
        [] c = "V" -> [l |-> "V", r |-> "V"]
        [] c = "W" -> [l |-> "V", r |-> "V"]
        [] c = "X" -> [l |-> "V", r |-> "V"]
        [] c = "Y" -> [l |-> "V", r |-> "V"]
        [] c = "Z" -> [l |-> "V", r |-> "V"]
        [] c = "a" -> [l |-> "R", r |-> "S"]
        [] c = "b" -> [l |-> "S", r |-> "R"]
        [] c = "c" -> [l |-> "R", r |-> "R"]
        [] c = "d" -> [l |-> "R", r |-> "S"]
        [] c = "e" -> [l |-> "R", r |-> "R"]
        [] c = "f" -> [l |-> "V", r |-> "V"]
        [] c = "g" -> [l |-> "R", r |-> "S"]
        [] c = "h" -> [l |-> "S", r |-> "A"]
        [] c = "i" -> [l |-> "S", r |-> "S"]
        [] c = "j" -> [l |-> "S", r |-> "S"]
        [] c = "k" -> [l |-> "S", r |-> "V"]
        [] c = "l" -> [l |-> "S", r |-> "S"]
        [] c = "m" -> [l |-> "S", r |-> "A"]
        [] c = "n" -> [l |-> "S", r |-> "A"]
        [] c = "o" -> [l |-> "R", r |-> "R"]
        [] c = "p" -> [l |-> "S", r |-> "R"]
        [] c = "q" -> [l |-> "R", r |-> "S"]
        [] c = "r" -> [l |-> "S", r |-> "V"]
        [] c = "s" -> [l |-> "V", r |-> "V"]
        [] c = "t" -> [l |-> "S", r |-> "V"]
        [] c = "u" -> [l |-> "S", r |-> "S"]
        [] c = "v" -> [l |-> "V", r |-> "V"]
        [] c = "w" -> [l |-> "V", r |-> "V"]
        [] c = "x" -> [l |-> "V", r |-> "V"]
        [] c = "y" -> [l |-> "V", r |-> "V"]
        [] c = "z" -> [l |-> "V", r |-> "V"]
    ]

---------------------------------------------------------------------------
(* Paths and bounding boxes (opentype.js Path, BoundingBox)                *)
(*                                                                         *)
(* A command is a record: M and L carry x, y; Q carries x1, y1, x, y;      *)
(* C carries x1, y1, x2, y2, x, y; Z carries no coordinate.                *)

CmdM(x, y) == [type |-> "M", x |-> x, y |-> y]

CmdL(x, y) == [type |-> "L", x |-> x, y |-> y]

CmdQ(x1, y1, x, y) == [type |-> "Q", x1 |-> x1, y1 |-> y1, x |-> x, y |-> y]

CmdC(x1, y1, x2, y2, x, y) ==
    [type |-> "C", x1 |-> x1, y1 |-> y1, x2 |-> x2, y2 |-> y2, x |-> x, y |-> y]

CmdZ == [type |-> "Z"]

\* new BoundingBox(): every field is NaN (nan = TRUE; the numbers are unused)
NaNBox == [nan |-> TRUE, x1 |-> 0, y1 |-> 0, x2 |-> 0, y2 |-> 0]

\* BoundingBox.addPoint
addPoint(box, x, y) ==
    IF box.nan
    THEN [nan |-> FALSE, x1 |-> x, y1 |-> y, x2 |-> x, y2 |-> y]
    ELSE [nan |-> FALSE, x1 |-> Min(box.x1, x), y1 |-> Min(box.y1, y),
          x2 |-> Max(box.x2, x), y2 |-> Max(box.y2, y)]

\* The interior extremum of a quadratic curve p0, p1, p2 on one axis, when its
\* parameter lies strictly inside (0, 1): p0 - (p0 - p1)^2 / (p0 - 2 p1 + p2),
\* taken to the model's resolution.  <<>> when there is none.
QuadExtremum(p0, p1, p2) ==
    LET d == p0 - 2 * p1 + p2
        n == p0 - p1
    IN  IF d # 0 /\ ((d > 0 /\ 0 < n /\ n < d) \/ (d < 0 /\ d < n /\ n < 0))
        THEN <<p0 - ((n * n) \div d)>>
        ELSE <<>>

\* A cubic curve p0..p3 on one axis at t = k/4, relative to p0 (the model
\* takes the interior extrema of a cubic at the quarter points).
CubicAt(p0, p1, p2, p3, k) ==
    p0 + ((3 * k * (4 - k) * (4 - k) * (p1 - p0)
           + 3 * k * k * (4 - k) * (p2 - p0)
           + k * k * k * (p3 - p0)) \div 64)

addX(box, x) == addPoint(box, x, box.y1)

addY(box, y) == addPoint(box, box.x1, y)

\* BoundingBox.addQuad: the end point and the interior extrema
addQuad(box, x0, y0, x1, y1, x, y) ==
    LET b1 == addPoint(addPoint(box, x0, y0), x, y)
        ex == QuadExtremum(x0, x1, x)
        ey == QuadExtremum(y0, y1, y)
        b2 == IF ex = <<>> THEN b1 ELSE addX(b1, ex[1])
    IN  IF ey = <<>> THEN b2 ELSE addY(b2, ey[1])

\* BoundingBox.addBezier: the end points and the interior extrema
addBezier(box, x0, y0, x1, y1, x2, y2, x, y) ==
    LET b0 == addPoint(addPoint(box, x0, y0), x, y)
        b1 == addY(addX(b0, CubicAt(x0, x1, x2, x, 1)), CubicAt(y0, y1, y2, y, 1))
        b2 == addY(addX(b1, CubicAt(x0, x1, x2, x, 2)), CubicAt(y0, y1, y2, y, 2))
    IN  addY(addX(b2, CubicAt(x0, x1, x2, x, 3)), CubicAt(y0, y1, y2, y, 3))

\* Path.getBoundingBox: the walk over the commands, from command i on, with
\* the current point (px, py) and the contour's start point (sx, sy)
RECURSIVE BoxFrom(_, _, _, _, _, _, _)
BoxFrom(cmds, i, box, sx, sy, px, py) ==
    IF i > Len(cmds) THEN box
    ELSE LET cmd == cmds[i] IN
         CASE cmd.type = "M" ->
                BoxFrom(cmds, i + 1, addPoint(box, cmd.x, cmd.y), cmd.x, cmd.y, cmd.x, cmd.y)
           [] cmd.type = "L" ->
                BoxFrom(cmds, i + 1, addPoint(box, cmd.x, cmd.y), sx, sy, cmd.x, cmd.y)
           [] cmd.type = "Q" ->
                BoxFrom(cmds, i + 1, addQuad(box, px, py, cmd.x1, cmd.y1, cmd.x, cmd.y),
                        sx, sy, cmd.x, cmd.y)
           [] cmd.type = "C" ->
                BoxFrom(cmds, i + 1,
                        addBezier(box, px, py, cmd.x1, cmd.y1, cmd.x2, cmd.y2, cmd.x, cmd.y),
                        sx, sy, cmd.x, cmd.y)
           [] OTHER ->
                BoxFrom(cmds, i + 1, box, sx, sy, sx, sy)

\* What Path.getBoundingBox gives for a path without points is the library's
\* matter, and the program allows for both: setGlyphSB expects NaN bounds
\* ("Bounds can be NaN if path is empty/invalid"), getCharMetrics the box
\* (0, 0, 0, 0) of an empty glyph.  Both builds are builds of the model.
LibBuilds == {"NaN", "zero"}

\* glyph.getBoundingBox(): the box of the glyph's current path, computed from
\* the commands at every call
getBoundingBox(glyph) ==
    LET box == BoxFrom(glyph.path, 1, NaNBox, 0, 0, 0, 0)
    IN  IF box.nan /\ lib = "zero" THEN addPoint(box, 0, 0) ELSE box

\* mutant of isNaN: no bounds are taken for NaN
isNaN_never(box) == FALSE

\* isNaN(bounds.x1), isNaN(bounds.x2)
isNaN(box) == box.nan

---------------------------------------------------------------------------
(* Glyphs and fonts *)

\* A glyph: name ("" when it has none), unicode (0 when it has none: the code
\* only tests it for truth and against 32), path, advanceWidth,
\* leftSideBearing, and the cached xMin, xMax, yMin, yMax of the glyf header
\* (cached = <<box>>, or <<>> once deleted).
Glyph(name, unicode, path, advanceWidth) ==
    [name |-> name, unicode |-> unicode, path |-> path,
     advanceWidth |-> advanceWidth,
     leftSideBearing |-> LET b == BoxFrom(path, 1, NaNBox, 0, 0, 0, 0)
                         IN IF b.nan THEN 0 ELSE b.x1,
     cached |-> <<BoxFrom(path, 1, NaNBox, 0, 0, 0, 0)>>]

\* the names of the model's glyphs that contain 'space'
SpaceNames == {"space", "visiblespace"}

\* name.includes('space')
includesSpace(name) == name \in SpaceNames

\* mutant of isSpace: the code point 32 is not tested
isSpace_byNameOnly(glyph) ==
    \/ glyph.name = "space"
    \/ includesSpace(glyph.name)

\* const isSpace = glyph.name === 'space' || glyph.unicode === 32 ||
\*                 glyph.name?.includes('space')
isSpace(glyph) ==
    \/ glyph.name = "space"
    \/ glyph.unicode = 32
    \/ includesSpace(glyph.name)

\* font.charToGlyphIndex: the cmap entry of the character, 0 (.notdef) when
\* the character is not mapped
charToGlyphIndex(f, char) ==
    IF char \in DOMAIN f.cmap THEN f.cmap[char] ELSE 0

\* font.charToGlyph
charToGlyph(f, char) == f.glyphs[charToGlyphIndex(f, char)]

\* commands.forEach(cmd => { if (cmd.x !== undefined) cmd.x += shift; ... })
shiftCommand(cmd, shift) ==
    [k \in DOMAIN cmd |->
        IF k \in {"x", "x1", "x2"} THEN cmd[k] + shift ELSE cmd[k]]

shiftPath(path, shift) == [i \in DOMAIN path |-> shiftCommand(path[i], shift)]

---------------------------------------------------------------------------
(* setGlyphSB *)

\* mutant of applyLsb: the path is moved by lsb, not by lsb - bounds.x1
applyLsb_relative(glyph, bounds, lsb) ==
    IF lsb # Null
    THEN IF Abs(lsb[1]) > Eps
         THEN [glyph EXCEPT !.path = shiftPath(@, lsb[1]),
                            !.leftSideBearing = lsb[1],
                            !.cached = <<>>]
         ELSE glyph
    ELSE glyph

\* The left-side step: shift every x coordinate by lsb - bounds.x1 when the
\* shift exceeds the epsilon, set leftSideBearing, delete the cached box.
\* null lsb: nothing.
applyLsb(glyph, bounds, lsb) ==
    IF lsb # Null
    THEN LET currentLsb == bounds.x1
             shift == lsb[1] - currentLsb
         IN  IF Abs(shift) > Eps /\ ~isNaN(bounds)
             THEN [glyph EXCEPT !.path = shiftPath(@, shift),
                                !.leftSideBearing = lsb[1],
                                !.cached = <<>>]
             ELSE glyph
    ELSE glyph

\* mutant of boundsAfterLsb: the bounds are not recomputed after the shift
boundsAfterLsb_stale(glyph, shifted, bounds) == bounds

\* The bounds the right-side step reads: recomputed from the path after a
\* shift, the ones read at entry otherwise
boundsAfterLsb(glyph, shifted, bounds) ==
    IF shifted # glyph THEN getBoundingBox(shifted) ELSE bounds

\* mutant of applyRsb: rsb is added to the advance width the glyph has
applyRsb_additive(glyph, bounds, rsb) ==
    IF rsb # Null /\ ~isNaN(bounds)
    THEN [glyph EXCEPT !.advanceWidth = @ + rsb[1]]
    ELSE glyph

\* The right-side step: advanceWidth = bounds.x2 + rsb
applyRsb(glyph, bounds, rsb) ==
    IF rsb # Null /\ ~isNaN(bounds)
    THEN [glyph EXCEPT !.advanceWidth = bounds.x2 + rsb[1]]
    ELSE glyph

\* setGlyphSB(font, glyphName, lsb, rsb): the font after the call
setGlyphSB(f, glyphName, lsb, rsb) ==
    LET gi == charToGlyphIndex(f, glyphName)
        glyph == f.glyphs[gi]
    IN  IF isSpace(glyph) THEN f
        ELSE LET bounds == getBoundingBox(glyph) IN
             IF isNaN(bounds) THEN f
             ELSE LET shifted == applyLsb(glyph, bounds, lsb)
                      bounds2 == boundsAfterLsb(glyph, shifted, bounds)
                  IN  [f EXCEPT !.glyphs[gi] = applyRsb(shifted, bounds2, rsb)]

\* getCharMetrics(font, char): the side bearings as the program reports them,
\* Math.round(box.x1) and Math.round(advanceWidth - box.x2); (0, advanceWidth)
\* for an empty glyph whose box is all zero; NaN twice (nan = TRUE) when the
\* box is NaN.
getCharMetrics(f, char) ==
    LET glyph == charToGlyph(f, char)
        box == getBoundingBox(glyph)
    IN  IF isNaN(box)
        THEN [nan |-> TRUE, lsb |-> 0, rsb |-> 0]
        ELSE IF /\ box.x1 = 0 /\ box.x2 = 0 /\ box.y1 = 0 /\ box.y2 = 0
                /\ Len(glyph.path) = 0
        THEN [nan |-> FALSE, lsb |-> 0, rsb |-> glyph.advanceWidth]
        ELSE [nan |-> FALSE,
              lsb |-> MathRound(box.x1, 1),
              rsb |-> MathRound(glyph.advanceWidth - box.x2, 1)]

\* the raw side bearings: box.x1 and advanceWidth - box.x2
rawLsb(glyph) == getBoundingBox(glyph).x1

rawRsb(glyph) == glyph.advanceWidth - getBoundingBox(glyph).x2

---------------------------------------------------------------------------
(* The fonts of the model *)

BoxPath(x, w, h) ==
    <<CmdM(x, 0), CmdL(x, h), CmdL(x + w, h), CmdL(x + w, 0), CmdZ>>

\* two quadratic bulges: the box runs from x to x + w
RoundPath(x, w, h) ==
    LET c == x + (w \div 2) IN
    <<CmdM(c, 0), CmdQ(c - w, h \div 2, c, h), CmdQ(c + w, h \div 2, c, 0), CmdZ>>

\* a stem, a cubic arch, a stem
ArchPath(x, w, h) ==
    <<CmdM(x, 0), CmdL(x, h),
      CmdC(x, h + U(10), x + w, h + U(10), x + w, h),
      CmdL(x + w, 0), CmdZ>>

\* a stem and a cubic lobe reaching x + 3w/4
LobePath(x, w, h) ==
    <<CmdM(x, 0), CmdL(x, h), CmdC(x + w, h, x + w, 0, x, 0), CmdZ>>

VeePath(x, w, h) ==
    <<CmdM(x, 0), CmdL(x + (w \div 2), h), CmdL(x + w, 0), CmdZ>>

\* glyph.name: the name the font gives, or none ("") in a font whose post
\* table carries no glyph names
NameOf(named, name) == IF named THEN name ELSE ""

\* The glyphs of a font, by glyph index.  dx moves every outline (dx = 1 puts
\* them one model unit off the integer grid); outl says whether .notdef and
\* the space carry an outline; named whether the glyphs have names.
GlyphsOf(dx, outl, named) ==
    <<Glyph(NameOf(named, ".notdef"), 0,
            IF outl THEN BoxPath(U(10) + dx, U(40), U(70)) ELSE <<>>, U(60)),
      Glyph(NameOf(named, "space"), 32,
            IF outl THEN BoxPath(U(11) + dx, U(2), U(2)) ELSE <<>>, U(25)),
      Glyph(NameOf(named, "H"), 72, BoxPath(U(8) + dx, U(44), U(70)), U(60)),
      Glyph(NameOf(named, "O"), 79, RoundPath(U(5) + dx, U(40), U(70)), U(50)),
      Glyph(NameOf(named, "n"), 110, ArchPath(U(6) + dx, U(34), U(40)), U(46)),
      Glyph(NameOf(named, "o"), 111, RoundPath(U(4) + dx, U(40), U(50)), U(48)),
      Glyph(NameOf(named, "A"), 65, VeePath(U(1) + dx, U(50), U(70)), U(52)),
      Glyph(NameOf(named, "D"), 68, LobePath(U(8) + dx, U(40), U(70)), U(45)),
      Glyph(NameOf(named, "M"), 77, BoxPath(U(9) + dx, U(60), U(70)), U(78)),
      Glyph(NameOf(named, "N"), 78, BoxPath(U(9) + dx, U(46), U(70)), U(64)),
      Glyph(NameOf(named, "T"), 84, BoxPath(U(2) + dx, U(48), U(70)), U(52)),
      Glyph(NameOf(named, "h"), 104, ArchPath(U(7) + dx, U(34), U(70)), U(47)),
      Glyph(NameOf(named, "a"), 97, RoundPath(U(3) + dx, U(36), U(50)), U(44)),
      Glyph(NameOf(named, "v"), 118, VeePath(dx, U(40), U(50)), U(40)),
      Glyph(NameOf(named, "Aacute"), 193, VeePath(U(1) + dx, U(50), U(90)), U(52)),
      Glyph(NameOf(named, "Hcircumflex"), 292, BoxPath(U(8) + dx, U(44), U(90)), U(60)),
      Glyph(NameOf(named, "ntilde"), 241, ArchPath(U(6) + dx, U(34), U(60)), U(46)),
      Glyph(NameOf(named, "one"), 49, BoxPath(U(12) + dx, U(20), U(70)), U(50)),
      Glyph(NameOf(named, "visiblespace"), 9251, BoxPath(U(3) + dx, U(44), U(10)), U(50))>>

\* the character map: character -> glyph index
CmapOf ==
    [c \in {" ", "H", "O", "n", "o", "A", "D", "M", "N", "T", "h", "a", "v",
            "U+00C1", "U+0124", "U+00F1", "1", "U+2423"} |->
        CASE c = " " -> 1 [] c = "H" -> 2 [] c = "O" -> 3 [] c = "n" -> 4
          [] c = "o" -> 5 [] c = "A" -> 6 [] c = "D" -> 7 [] c = "M" -> 8
          [] c = "N" -> 9 [] c = "T" -> 10 [] c = "h" -> 11 [] c = "a" -> 12
          [] c = "v" -> 13 [] c = "U+00C1" -> 14 [] c = "U+0124" -> 15
          [] c = "U+00F1" -> 16 [] c = "1" -> 17 [] c = "U+2423" -> 18]

\* opentype.parse: the font object (glyph indices start at 0)
FontOf(dx, outl, named) ==
    [glyphs |-> [i \in 0 .. (Len(GlyphsOf(dx, outl, named)) - 1) |->
                    GlyphsOf(dx, outl, named)[i + 1]],
     cmap |-> CmapOf]

\* offsets of the outlines in the fonts the model starts from (model units)
InitShifts == {0, 1}

InitFonts ==
    {FontOf(dx, outl, named) : dx \in InitShifts, outl \in BOOLEAN, named \in BOOLEAN}

\* a glyph of the font has a path without commands
hasEmptyPath(f) == \E i \in DOMAIN f.glyphs : Len(f.glyphs[i].path) = 0

\* the builds that can be told apart on the font: both when a glyph has no
\* outline, one otherwise (the builds agree on every path with a point)
LibsFor(f) == IF hasEmptyPath(f) THEN LibBuilds ELSE {"zero"}

---------------------------------------------------------------------------
(* Specification SpecSB: calls of the primitive setGlyphSB *)

\* the dummy values of the sanitizer's variables outside SpecSan
NoBuffer == <<>>

\* nothing handed back yet
NoResult == <<>>

\* number of calls in one behaviour
MaxCalls == 1

\* the characters setGlyphSB is called with: letters, the space, a glyph
\* whose name contains 'space', and "B", which the fonts do not map
CallChars == {"H", "O", "n", "D", " ", "U+2423", "B"}

\* the targets: null, and side bearings of 8, 50 and -5 font units
Targets == {Null, Some(U(8)), Some(U(50)), Some(-U(5))}

InitSB ==
    /\ font \in InitFonts
    /\ font0 = font
    /\ last = [op |-> "init"]
    /\ steps = 0
    /\ buffer = NoBuffer
    /\ clean = NoBuffer
    /\ result = NoResult
    /\ lib \in LibsFor(font)

\* one call setGlyphSB(font, char, lsb, rsb)
CallSetGlyphSB ==
    /\ steps < MaxCalls
    /\ \E char \in CallChars, lsb \in Targets, rsb \in Targets :
        /\ font' = setGlyphSB(font, char, lsb, rsb)
        /\ last' = [op |-> "setGlyphSB", char |-> char, lsb |-> lsb, rsb |-> rsb,
                    before |-> font, again |-> FALSE]
    /\ steps' = steps + 1
    /\ UNCHANGED <<font0, buffer, clean, result, lib>>

\* the same call once more, with the same targets
RepeatSetGlyphSB ==
    /\ last.op = "setGlyphSB"
    /\ ~last.again
    /\ font' = setGlyphSB(font, last.char, last.lsb, last.rsb)
    /\ last' = [last EXCEPT !.before = font, !.again = TRUE]
    /\ UNCHANGED <<font0, steps, buffer, clean, result, lib>>

NextSB == CallSetGlyphSB \/ RepeatSetGlyphSB

SpecSB == InitSB /\ [][NextSB]_vars
---------------------------------------------------------------------------
(* The spacing methods *)

\* A settings object: the masters H, O, n, o, each [lsb, rsb], and the
\* overrides as the sequence of Object.keys(overrides) with their values:
\* [char, lsb, rsb], lsb and rsb optional numbers.
Master(l, r) == [lsb |-> l, rsb |-> r]

Override(char, l, r) == [char |-> char, lsb |-> l, rsb |-> r]

\* overrides[char] is present
hasOverride(settings, char) ==
    \E i \in DOMAIN settings.overrides : settings.overrides[i].char = char

\* A font without glyphs: charToGlyph yields no glyph and every setGlyphSB
\* returns at once (!glyph), so a loop of calls leaves the font as it is.
noGlyphs(f) == DOMAIN f.glyphs = {}

\* mutant of propagate: the diacritics are not visited
propagate_none(f, related, i, lsb, rsb) == f

\* related.forEach(childChar => setGlyphSB(font, childChar, lsb, rsb)),
\* from the i-th variant on
RECURSIVE propagate(_, _, _, _, _)
propagate(f, related, i, lsb, rsb) ==
    IF i > Len(related) \/ noGlyphs(f) THEN f
    ELSE propagate(setGlyphSB(f, related[i], lsb, rsb), related, i + 1, lsb, rsb)

\* DIACRITICS_MAP[char], nothing for a character that is no key
relatedOf(char) ==
    IF char \in DOMAIN DIACRITICS_MAP THEN DIACRITICS_MAP[char] ELSE <<>>

\* applyRule(char, ruleLsb, ruleRsb): the base letter, then its diacritics
applyRule(f, char, ruleLsb, ruleRsb) ==
    propagate(setGlyphSB(f, char, Some(ruleLsb), Some(ruleRsb)),
              relatedOf(char), 1, Some(ruleLsb), Some(ruleRsb))

Rule(char, l, r) == [char |-> char, lsb |-> l, rsb |-> r]

\* Math.round(valH * 1.15): M, N (wide)
valMoreH(valH) == MathRound(valH * 115, 100)

\* Math.round(valH * 0.85)
valLessH(valH) == MathRound(valH * 85, 100)

\* mutant of valMin: no lower bound of 5
valMin_noFloor(valH) == MathRound(valH * 25, 100)

\* Math.max(5, Math.round(valH * 0.25)): the minimum space
valMin(valH) == Max(U(5), MathRound(valH * 25, 100))

\* Math.round((valH + valO) / 2)
valVisual(valH, valO) == MathRound(valH + valO, 2)

\* Math.round(nStem * 1.15)
valMoreN(nStem) == MathRound(nStem * 115, 100)

\* Math.round(oRound * 0.9)
valLessO(oRound) == MathRound(oRound * 90, 100)

\* Math.max(5, Math.round(nStem * 0.25))
valLowMin(nStem) == Max(U(5), MathRound(nStem * 25, 100))

\* Math.round((nStem + oRound) / 2)
valLowVisual(nStem, oRound) == MathRound(nStem + oRound, 2)

\* the applyRule calls of applyTracyMethod, in the order of the source
TracyRules(settings) ==
    LET H == settings.H
        O == settings.O
        n == settings.n
        o == settings.o
        valH == H.lsb
        valO == O.lsb
        nStem == n.lsb
        nArch == n.rsb
        oRound == o.lsb
    IN  << Rule("H", H.lsb, H.rsb),
           Rule("O", O.lsb, O.rsb),
           Rule("n", n.lsb, n.rsb),
           Rule("o", o.lsb, o.rsb),
           Rule("A", valMin(valH), valMin(valH)),
           Rule("B", valH, valLessH(valH)),
           Rule("C", valO, valLessH(valH)),
           Rule("D", valH, valO),
           Rule("E", valH, valLessH(valH)),
           Rule("F", valH, valLessH(valH)),
           Rule("G", valO, valMoreH(valH)),
           Rule("H", valH, valH),
           Rule("I", valH, valH),
           Rule("J", valMin(valH), valH),
           Rule("K", valH, valMin(valH)),
           Rule("L", valH, valMin(valH)),
           Rule("M", valMoreH(valH), valMoreH(valH)),
           Rule("N", valMoreH(valH), valMoreH(valH)),
           Rule("O", valO, valO),
           Rule("P", valH, valO),
           Rule("Q", valO, valO),
           Rule("R", valH, valMin(valH)),
           Rule("S", valVisual(valH, valO), valVisual(valH, valO)),
           Rule("T", valMin(valH), valMin(valH)),
           Rule("U", valH, valMoreH(valH)),
           Rule("V", valMin(valH), valMin(valH)),
           Rule("W", valMin(valH), valMin(valH)),
           Rule("X", valMin(valH), valMin(valH)),
           Rule("Y", valMin(valH), valMin(valH)),
           Rule("Z", valLessH(valH), valLessH(valH)),
           Rule("b", nStem, oRound),
           Rule("c", oRound, valLessO(oRound)),
           Rule("d", oRound, nStem),
           Rule("e", oRound, valLessO(oRound)),
           Rule("f", valLowMin(nStem), valLowMin(nStem)),
           Rule("g", oRound, nStem),
           Rule("h", valMoreN(nStem), nArch),
           Rule("i", valMoreN(nStem), nStem),
           Rule("j", nStem, nStem),
           Rule("k", nStem, valLowMin(nStem)),
           Rule("l", valMoreN(nStem), nStem),
           Rule("m", nStem, nArch),
           Rule("n", nStem, nArch),
           Rule("n", nStem, nArch),
           Rule("o", oRound, oRound),
           Rule("p", valMoreN(nStem), oRound),
           Rule("q", oRound, nStem),
           Rule("r", nStem, valLowMin(nStem)),
           Rule("s", valLessO(oRound), valLessO(oRound)),
           Rule("t", nStem, valLowMin(nStem)),
           Rule("u", nStem, nStem),
           Rule("v", valLowMin(nStem), valLowMin(nStem)),
           Rule("w", valLowMin(nStem), valLowMin(nStem)),
           Rule("x", valLowVisual(nStem, oRound), valLowVisual(nStem, oRound)),
           Rule("y", valLowMin(nStem), valLowMin(nStem)),
           Rule("z", valLowVisual(nStem, oRound), valLowVisual(nStem, oRound)),
           Rule("a", oRound, nStem) >>

\* the applyRule calls, from the i-th on
RECURSIVE applyRules(_, _, _)
applyRules(f, rules, i) ==
    IF i > Len(rules) \/ noGlyphs(f) THEN f
    ELSE applyRules(applyRule(f, rules[i].char, rules[i].lsb, rules[i].rsb), rules, i + 1)

\* mutant of applyOverrides: an override also goes to the diacritics of its
\* character
RECURSIVE applyOverrides_propagated(_, _, _)
applyOverrides_propagated(f, overrides, i) ==
    IF i > Len(overrides) \/ noGlyphs(f) THEN f
    ELSE applyOverrides_propagated(
            propagate(setGlyphSB(f, overrides[i].char, overrides[i].lsb, overrides[i].rsb),
                      relatedOf(overrides[i].char), 1, overrides[i].lsb, overrides[i].rsb),
            overrides, i + 1)

\* Object.keys(overrides).forEach(char => setGlyphSB(font, char, lsb, rsb)),
\* from the i-th key on
RECURSIVE applyOverrides(_, _, _)
applyOverrides(f, overrides, i) ==
    IF i > Len(overrides) \/ noGlyphs(f) THEN f
    ELSE applyOverrides(
            setGlyphSB(f, overrides[i].char, overrides[i].lsb, overrides[i].rsb),
            overrides, i + 1)

\* applyTracyMethod(font, settings): the font after the call
applyTracyMethod(f, settings) ==
    applyOverrides(applyRules(f, TracyRules(settings), 1), settings.overrides, 1)

\* char === char.toUpperCase() && char !== char.toLowerCase(), for the keys of
\* TOPOLOGY
isUpper(char) == char \in UpperLetters

\* mutant of getValue: an Arch edge takes the stem value n.lsb
getValue_archAsStem(settings, char, side, topoType) ==
    IF isUpper(char)
    THEN CASE topoType = "S" -> settings.H.lsb
           [] topoType = "R" -> settings.O.lsb
           [] topoType = "V" -> MathRound(settings.H.lsb * 5, 10)
           [] OTHER -> U(20)
    ELSE CASE topoType = "S" -> settings.n.lsb
           [] topoType = "A" -> settings.n.lsb
           [] topoType = "R" -> settings.o.lsb
           [] topoType = "V" -> MathRound(settings.n.lsb * 5, 10)
           [] OTHER -> U(20)

\* applySousaMethod.getValue(char, side, topoType)
getValue(settings, char, side, topoType) ==
    IF isUpper(char)
    THEN CASE topoType = "S" -> settings.H.lsb
           [] topoType = "R" -> settings.O.lsb
           [] topoType = "V" -> MathRound(settings.H.lsb * 5, 10)
           [] OTHER -> U(20)
    ELSE CASE topoType = "S" -> settings.n.lsb
           [] topoType = "A" -> settings.n.rsb
           [] topoType = "R" -> settings.o.lsb
           [] topoType = "V" -> MathRound(settings.n.lsb * 5, 10)
           [] OTHER -> U(20)

\* step 1 of applySousaMethod: the keys of TOPOLOGY from the i-th on, each
\* with its diacritics
RECURSIVE applyTopology(_, _, _)
applyTopology(f, settings, i) ==
    IF i > Len(TopologyKeys) \/ noGlyphs(f) THEN f
    ELSE LET char == TopologyKeys[i]
             topo == TOPOLOGY[char]
             lsb == getValue(settings, char, "l", topo.l)
             rsb == getValue(settings, char, "r", topo.r)
         IN  applyTopology(
                propagate(setGlyphSB(f, char, Some(lsb), Some(rsb)),
                          relatedOf(char), 1, Some(lsb), Some(rsb)),
                settings, i + 1)

\* mutant of setMasterSafe: the re-asserted pair also goes to the diacritics
setMasterSafe_propagated(f, settings, char, val) ==
    IF ~hasOverride(settings, char)
    THEN propagate(setGlyphSB(f, char, Some(val.lsb), Some(val.rsb)),
                   relatedOf(char), 1, Some(val.lsb), Some(val.rsb))
    ELSE f

\* mutant of setMasterSafe: the master is re-asserted even when overridden
setMasterSafe_always(f, settings, char, val) ==
    setGlyphSB(f, char, Some(val.lsb), Some(val.rsb))

\* applySousaMethod.setMasterSafe(char, val)
setMasterSafe(f, settings, char, val) ==
    IF ~hasOverride(settings, char)
    THEN setGlyphSB(f, char, Some(val.lsb), Some(val.rsb))
    ELSE f

\* mutant of reassertMasters: step 3 is left out
reassertMasters_none(f, settings) == f

\* step 3 of applySousaMethod: the masters n, o, H, O
reassertMasters(f, settings) ==
    setMasterSafe(
        setMasterSafe(
            setMasterSafe(
                setMasterSafe(f, settings, "n", settings.n),
                settings, "o", settings.o),
            settings, "H", settings.H),
        settings, "O", settings.O)

\* applySousaMethod(font, settings): the font after the call
applySousaMethod(f, settings) ==
    reassertMasters(
        applyOverrides(applyTopology(f, settings, 1), settings.overrides, 1),
        settings)

---------------------------------------------------------------------------
(* Specification Spec: applications of the two spacing methods *)

\* number of method applications in one behaviour
MaxApply == 1

\* The master measurements: the spec's end-to-end scenario, and a set with
\* lsb # rsb on every master, a value (8) the H of the fonts already has and
\* one small enough for the minimum of 5 to apply.
MasterSets ==
    { [H |-> Master(U(80), U(80)), O |-> Master(U(70), U(70)),
       n |-> Master(U(40), U(35)), o |-> Master(U(45), U(45))],
      [H |-> Master(U(8), U(30)), O |-> Master(U(13), U(21)),
       n |-> Master(U(16), U(6)), o |-> Master(U(10), U(4))] }

\* The overrides, in the order of Object.keys: none; a digit, a derived
\* letter, a diacritic, the space, a glyph named after the space and an
\* unmapped character; two masters and a master's diacritic; null sides.
OverrideSets ==
    { <<>>,
      <<Override("1", Some(U(10)), Some(U(12))),
        Override("M", Some(U(33)), Some(U(44))),
        Override("U+00C1", Some(U(21)), Some(U(22))),
        Override(" ", Some(U(30)), Some(U(31))),
        Override("U+2423", Some(U(30)), Some(U(31))),
        Override("B", Some(U(15)), Some(U(16)))>>,
      <<Override("H", Some(U(55)), Some(U(66))),
        Override("o", Some(U(27)), Some(U(28))),
        Override("U+0124", Some(U(23)), Some(U(24)))>>,
      <<Override("n", Null, Some(U(17))),
        Override("A", Some(U(14)), Null),
        Override("O", Null, Null)>> }

SettingsSet ==
    { [H |-> m.H, O |-> m.O, n |-> m.n, o |-> m.o, overrides |-> ov] :
        m \in MasterSets, ov \in OverrideSets }

Init ==
    /\ font \in InitFonts
    /\ font0 = font
    /\ last = [op |-> "init"]
    /\ steps = 0
    /\ buffer = NoBuffer
    /\ clean = NoBuffer
    /\ result = NoResult
    /\ lib \in LibsFor(font)

\* applyTracyMethod(font, settings)
ApplyTracy ==
    /\ steps < MaxApply
    /\ \E settings \in SettingsSet :
        /\ font' = applyTracyMethod(font, settings)
        /\ last' = [op |-> "applyTracyMethod", settings |-> settings, before |-> font]
    /\ steps' = steps + 1
    /\ UNCHANGED <<font0, buffer, clean, result, lib>>

\* applySousaMethod(font, settings)
ApplySousa ==
    /\ steps < MaxApply
    /\ \E settings \in SettingsSet :
        /\ font' = applySousaMethod(font, settings)
        /\ last' = [op |-> "applySousaMethod", settings |-> settings, before |-> font]
    /\ steps' = steps + 1
    /\ UNCHANGED <<font0, buffer, clean, result, lib>>

Next == ApplyTracy \/ ApplySousa

Spec == Init /\ [][Next]_vars

---------------------------------------------------------------------------
(* stripLayoutTables *)

\* An ArrayBuffer is the sequence of its bytes; the byte at offset k is
\* buf[k + 1].  A tag is the tuple of its four character codes.
TagGPOS == <<71, 80, 79, 83>>

TagGSUB == <<71, 83, 85, 66>>

TagGDEF == <<71, 68, 69, 70>>

TagJSTF == <<74, 83, 84, 70>>

TagBASE == <<66, 65, 83, 69>>

TagKern == <<107, 101, 114, 110>>

\* 'void' in ascii: 118, 111, 105, 100
TagVoid == <<118, 111, 105, 100>>

\* mutant of isLayoutTag: 'kern' is missing from the list
isLayoutTag_noKern(tag) == tag \in {TagGPOS, TagGSUB, TagGDEF, TagJSTF, TagBASE}

\* ['GPOS', 'GSUB', 'GDEF', 'JSTF', 'BASE', 'kern'].includes(tag)
isLayoutTag(tag) == tag \in {TagGPOS, TagGSUB, TagGDEF, TagJSTF, TagBASE, TagKern}

\* DataView.getUint16(4): big-endian
getUint16(buf, offset) == buf[offset + 1] * 256 + buf[offset + 2]

\* newData.setUint8(offset + k, ...) for the four bytes of 'void'
setTagVoid(buf, offset) ==
    [j \in DOMAIN buf |->
        IF j > offset /\ j <= offset + 4 THEN TagVoid[j - offset] ELSE buf[j]]

\* The loop over the table directory from entry i on, at the given offset:
\* the working copy when it ends, or threw = TRUE when a getUint8 reads past
\* the end of the buffer (a RangeError).
RECURSIVE stripEntries(_, _, _, _)
stripEntries(newBuffer, i, numTables, offset) ==
    IF i >= numTables THEN [threw |-> FALSE, bytes |-> newBuffer]
    ELSE IF offset + 4 > Len(newBuffer) THEN [threw |-> TRUE, bytes |-> newBuffer]
    ELSE LET tag == SubSeq(newBuffer, offset + 1, offset + 4) IN
         stripEntries(IF isLayoutTag(tag) THEN setTagVoid(newBuffer, offset) ELSE newBuffer,
                      i + 1, numTables, offset + 16)

\* The two ArrayBuffer objects of a call: the caller's buffer and the working
\* copy (no bytes before it is allocated)
Heap(buf) == [buffer |-> buf, newBuffer |-> <<>>]

\* mutant of slice0: no copy is made, the DataView is laid over the caller's
\* buffer
slice0_alias(heap) == [ref |-> "buffer", heap |-> heap]

\* const newBuffer = buffer.slice(0): a new ArrayBuffer holding the bytes of
\* buffer; ref names the object newData is laid over
slice0(heap) ==
    [ref |-> "newBuffer", heap |-> [heap EXCEPT !.newBuffer = heap.buffer]]

\* stripLayoutTables(buffer): the bytes returned, whether the object
\* returned is the caller's buffer (the catch branch) or the working copy,
\* and the bytes the caller's buffer holds after the call.  The writes made
\* before a failing read stay in the object newData is laid over.
stripLayoutTables(buf) ==
    IF 4 + 2 > Len(buf)
    THEN [bytes |-> buf, same |-> TRUE, caller |-> buf]
    ELSE LET copy == slice0(Heap(buf))
             run == stripEntries(copy.heap[copy.ref], 0, getUint16(buf, 4), 12)
             heap == [copy.heap EXCEPT ![copy.ref] = run.bytes]
         IN  IF run.threw
             THEN [bytes |-> heap.buffer, same |-> TRUE, caller |-> heap.buffer]
             ELSE [bytes |-> heap[copy.ref], same |-> copy.ref = "buffer",
                   caller |-> heap.buffer]

---------------------------------------------------------------------------
(* Specification SpecSan: the sanitizer on the buffers of the model *)

\* number of entries the table directory of a buffer holds
MaxEntries == 2

TagGlyf == <<103, 108, 121, 102>>

\* 'KERN': no tag of the list, it differs from 'kern' by case
TagKERN == <<75, 69, 82, 78>>

DirTags == {TagGPOS, TagGSUB, TagGDEF, TagJSTF, TagBASE, TagKern, TagGlyf, TagKERN, TagVoid}

\* the sfnt header with the table count n, and one 16-byte directory entry
Header(n) == <<0, 1, 0, 0, n \div 256, n % 256, 0, 16, 0, 0, 0, 0>>

Entry(tag) == tag \o <<0, 0, 0, 1, 0, 0, 0, 64, 0, 0, 0, 4>>

\* table data after the directory: bytes that spell a listed tag
TableData == TagGSUB \o <<1, 2, 3>>

RECURSIVE Directory(_)
Directory(tags) ==
    IF tags = <<>> THEN <<>> ELSE Entry(Head(tags)) \o Directory(Tail(tags))

TagLists == UNION {[1 .. k -> DirTags] : k \in 0 .. MaxEntries}

\* the first len bytes
Truncate(buf, len) == SubSeq(buf, 1, Min(len, Len(buf)))

\* The buffers: a directory of up to MaxEntries entries, a table count that
\* may differ from it, whole or cut short (inside the header, after the
\* count, inside or just after the first tag).
Buffers ==
    { Truncate(Header(n) \o Directory(tags) \o TableData, len) :
        n \in 0 .. (MaxEntries + 1),
        tags \in TagLists,
        len \in {5, 6, 14, 16, 12 + 16 * MaxEntries + Len(TableData)} }

NoFont == <<>>

InitSan ==
    /\ buffer \in Buffers
    /\ clean = NoBuffer
    /\ result = NoResult
    /\ lib = "zero"
    /\ last = [op |-> "init"]
    /\ steps = 0
    /\ font = NoFont
    /\ font0 = NoFont

\* const cleanBuffer = stripLayoutTables(buffer)
Strip ==
    /\ last.op = "init"
    /\ clean' = stripLayoutTables(buffer)
    /\ buffer' = stripLayoutTables(buffer).caller
    /\ last' = [op |-> "stripLayoutTables", before |-> buffer]
    /\ steps' = steps + 1
    /\ UNCHANGED <<font, font0, result, lib>>

NextSan == Strip

SpecSan == InitSan /\ [][NextSan]_vars


---------------------------------------------------------------------------
(* Claims about setGlyphSB, checked under SpecSB *)

\* the glyph the last call resolved its character to, after and before it
LastGlyph == charToGlyph(font, last.char)

LastGlyphBefore == charToGlyph(last.before, last.char)

\* the last step was a call with both targets given, on a glyph that is not
\* the space and has a numerically valid bounding box
BothSidesCall ==
    /\ last.op = "setGlyphSB"
    /\ last.lsb # Null
    /\ last.rsb # Null
    /\ ~isSpace(LastGlyphBefore)
    /\ ~isNaN(getBoundingBox(LastGlyphBefore))

\* C1 as stated: after setGlyphSB(font, char, L, R) with L and R given, on a
\* glyph that is not the space and has a valid bounding box, the bounding-box
\* x1 equals L and advanceWidth - x2 equals R, whatever the prior position.
C1_ExactPostcondition ==
    BothSidesCall =>
        /\ rawLsb(LastGlyph) = last.lsb[1]
        /\ rawRsb(LastGlyph) = last.rsb[1]

\* C1 amended: after such a call on a glyph whose path is not empty,
\* advanceWidth - x2 equals R, and x1 is within the epsilon (0.001 font unit)
\* of L: it equals L when the prior x1 was more than the epsilon away from L
\* and is the prior x1 otherwise.  (A path without commands has no point to
\* move: where the library gives it the box (0, 0, 0, 0), x1 stays 0.)
C1_PostconditionWithinEps ==
    (BothSidesCall /\ Len(LastGlyphBefore.path) > 0) =>
        /\ rawRsb(LastGlyph) = last.rsb[1]
        /\ Abs(rawLsb(LastGlyph) - last.lsb[1]) <= Eps
        /\ Abs(rawLsb(LastGlyphBefore) - last.lsb[1]) > Eps
              => rawLsb(LastGlyph) = last.lsb[1]
        /\ Abs(rawLsb(LastGlyphBefore) - last.lsb[1]) <= Eps
              => rawLsb(LastGlyph) = rawLsb(LastGlyphBefore)

\* C1 witness: a call that moved a curved outline and changed its advance
\* width, and arrived at the targets
C1_Witness ==
    /\ BothSidesCall
    /\ last.char = "O"
    /\ Abs(rawLsb(LastGlyphBefore) - last.lsb[1]) > Eps
    /\ LastGlyph.advanceWidth # LastGlyphBefore.advanceWidth
    /\ rawLsb(LastGlyph) = last.lsb[1]

\* C2: calling setGlyphSB twice in a row with the same targets (null
\* included) leaves the path, the bounding box and the advance width as one
\* call left them.
C2_Idempotent ==
    (last.op = "setGlyphSB" /\ last.again) => font = last.before

\* C2 witness: a second call after a first one that changed the font, with a
\* null target on one side
C2_Witness ==
    /\ last.op = "setGlyphSB"
    /\ last.again
    /\ font # font0
    /\ last.lsb = Null
    /\ last.rsb # Null

---------------------------------------------------------------------------
(* Claims about the spacing methods, checked under Spec *)

\* the last step applied a spacing method
MethodApplied == last.op \in {"applyTracyMethod", "applySousaMethod"}

\* the character is mapped to a glyph with an outline that is not the space
Spaceable(f, char) ==
    /\ char \in DOMAIN f.cmap
    /\ ~isSpace(charToGlyph(f, char))
    /\ ~isNaN(getBoundingBox(charToGlyph(f, char)))

\* the side bearings the program reports for the character are (l, r)
Reports(f, char, l, r) ==
    /\ ~getCharMetrics(f, char).nan
    /\ getCharMetrics(f, char).lsb = l
    /\ getCharMetrics(f, char).rsb = r

\* C3: space immunity.  Whatever the methods, their settings and their
\* overrides (which call setGlyphSB on the space with targets of their own),
\* a glyph that is the space (name 'space', code point 32, or a name
\* containing 'space') keeps its path and its advance width.
C3_SpaceImmunity ==
    \A i \in DOMAIN font.glyphs :
        (\/ font0.glyphs[i].name = "space"
         \/ font0.glyphs[i].unicode = 32
         \/ includesSpace(font0.glyphs[i].name))
        => /\ font.glyphs[i].path = font0.glyphs[i].path
           /\ font.glyphs[i].advanceWidth = font0.glyphs[i].advanceWidth

\* C3 witness: a method with overrides for the space and for a glyph named
\* after it, on a font whose space carries an outline and no name
C3_Witness ==
    /\ MethodApplied
    /\ hasOverride(last.settings, " ")
    /\ hasOverride(last.settings, "U+2423")
    /\ charToGlyph(font, " ").name = ""
    /\ ~isNaN(getBoundingBox(charToGlyph(font, " ")))
    /\ font # font0

\* C4: override precedence.  After either method, every character with an
\* override giving both sides, whose glyph is present, not the space and not
\* degenerate, reports the override's lsb and rsb (a master letter and a
\* diacritic variant included).
C4_OverridePrecedence ==
    MethodApplied =>
        \A i \in DOMAIN last.settings.overrides :
            LET ov == last.settings.overrides[i] IN
            (ov.lsb # Null /\ ov.rsb # Null /\ Spaceable(last.before, ov.char))
                => Reports(font, ov.char, ov.lsb[1], ov.rsb[1])

\* C4 witness: Method B with an override on the master H (which the
\* re-assertion would otherwise reset) and on a diacritic of H
C4_Witness ==
    /\ last.op = "applySousaMethod"
    /\ hasOverride(last.settings, "H")
    /\ hasOverride(last.settings, "U+0124")
    /\ Reports(font, "H", U(55), U(66))
    /\ last.settings.H.lsb # U(55)

\* the pair the method's rule resolved for a base letter: Method A, the last
\* applyRule call for the letter; Method B, the classification of the letter
RuleOf(op, settings, base) ==
    IF op = "applyTracyMethod"
    THEN LET rules == TracyRules(settings)
             k == CHOOSE j \in DOMAIN rules :
                     /\ rules[j].char = base
                     /\ \A m \in DOMAIN rules : rules[m].char = base => m <= j
         IN  [lsb |-> rules[k].lsb, rsb |-> rules[k].rsb]
    ELSE [lsb |-> getValue(settings, base, "l", TOPOLOGY[base].l),
          rsb |-> getValue(settings, base, "r", TOPOLOGY[base].r)]

\* C5: diacritic inheritance.  After either method, every variant that
\* DIACRITICS_MAP lists for a base letter, that is present in the font and
\* has no override of its own, reports the pair the rule resolved for the
\* base letter.
C5_DiacriticInheritance ==
    MethodApplied =>
        \A base \in BaseLetters :
            \A k \in DOMAIN DIACRITICS_MAP[base] :
                LET variant == DIACRITICS_MAP[base][k] IN
                (Spaceable(last.before, variant) /\ ~hasOverride(last.settings, variant))
                    => Reports(font, variant,
                               RuleOf(last.op, last.settings, base).lsb,
                               RuleOf(last.op, last.settings, base).rsb)

\* C5 witness: the variant of A took a pair it did not have before, under an
\* override of A itself but none of its own
C5_Witness ==
    /\ last.op = "applyTracyMethod"
    /\ hasOverride(last.settings, "A")
    /\ ~hasOverride(last.settings, "U+00C1")
    /\ Reports(font, "U+00C1", U(5), U(5))
    /\ ~Reports(last.before, "U+00C1", U(5), U(5))

\* C6: Method A, no overrides: M and N report lsb = rsb = round(1.15 H.lsb),
\* T reports lsb = rsb = max(5, round(0.25 H.lsb)), which is never below 5;
\* with H.lsb = 80 they are 92 and 20.
C6_TracyDerivedValues ==
    (last.op = "applyTracyMethod" /\ last.settings.overrides = <<>>) =>
        LET h == last.settings.H.lsb
            wide == ((115 * h + 50 * Scale) \div (100 * Scale)) * Scale
            quarter == ((25 * h + 50 * Scale) \div (100 * Scale)) * Scale
            least == IF quarter < 5 * Scale THEN 5 * Scale ELSE quarter
        IN  /\ Reports(font, "M", wide, wide)
            /\ Reports(font, "N", wide, wide)
            /\ Reports(font, "T", least, least)
            /\ getCharMetrics(font, "T").lsb >= 5 * Scale
            /\ h = 80 * Scale =>
                  /\ Reports(font, "M", 92 * Scale, 92 * Scale)
                  /\ Reports(font, "T", 20 * Scale, 20 * Scale)

\* C6 witness: the scenario of the spec (H.lsb = 80), and a master small
\* enough for the minimum of 5 to apply
C6_Witness ==
    /\ last.op = "applyTracyMethod"
    /\ last.settings.overrides = <<>>
    /\ \/ last.settings.H.lsb = U(80) /\ Reports(font, "N", U(92), U(92))
       \/ last.settings.H.lsb = U(8) /\ Reports(font, "T", U(5), U(5))

\* C7 as stated: Method A, no overrides: each master letter H, O, n, o reports
\* exactly the lsb and the rsb of its master measurement, also when the two
\* differ.
C7_TracyMastersVerbatim ==
    (last.op = "applyTracyMethod" /\ last.settings.overrides = <<>>) =>
        /\ Reports(font, "H", last.settings.H.lsb, last.settings.H.rsb)
        /\ Reports(font, "O", last.settings.O.lsb, last.settings.O.rsb)
        /\ Reports(font, "n", last.settings.n.lsb, last.settings.n.rsb)
        /\ Reports(font, "o", last.settings.o.lsb, last.settings.o.rsb)

MasterLetters == {"H", "O", "n", "o"}

\* the value Method B's categories select: Straight, Round, Arch, Vertex
CategoryValue(settings, upper, cat) ==
    CASE cat = "S" -> IF upper THEN settings.H.lsb ELSE settings.n.lsb
      [] cat = "R" -> IF upper THEN settings.O.lsb ELSE settings.o.lsb
      [] cat = "A" -> settings.n.rsb
      [] cat = "V" ->
            LET stem == IF upper THEN settings.H.lsb ELSE settings.n.lsb
            IN  ((5 * stem + 5 * Scale) \div (10 * Scale)) * Scale

\* C8: Method B: every letter of TOPOLOGY that is no master and has no
\* override reports, on each side, the value its edge category selects:
\* Straight -> H.lsb / n.lsb, Round -> O.lsb / o.lsb, Arch -> n.rsb,
\* Vertex -> round(0.5 H.lsb) / round(0.5 n.lsb).
C8_SousaCategoryResolution ==
    last.op = "applySousaMethod" =>
        \A char \in BaseLetters \ MasterLetters :
            (Spaceable(last.before, char) /\ ~hasOverride(last.settings, char))
                => Reports(font, char,
                           CategoryValue(last.settings, char \in UpperLetters, TOPOLOGY[char].l),
                           CategoryValue(last.settings, char \in UpperLetters, TOPOLOGY[char].r))

\* C8 witness: h (Straight, Arch) and A (Vertex, Vertex) took their values
C8_Witness ==
    /\ last.op = "applySousaMethod"
    /\ last.settings.overrides = <<>>
    /\ last.settings.n.lsb # last.settings.n.rsb
    /\ Reports(font, "h", last.settings.n.lsb, last.settings.n.rsb)
    /\ Reports(font, "A", U(4), U(4))

\* the font after steps 1 and 2 of applySousaMethod, before the re-assertion
AfterOverrideStep ==
    applyOverrides(applyTopology(last.before, last.settings, 1),
                   last.settings.overrides, 1)

\* C9: Method B: a master letter without an entry in overrides reports
\* exactly its master pair; one with an entry is not re-asserted and keeps
\* the glyph the override step left.
C9_SousaMasterReassertion ==
    last.op = "applySousaMethod" =>
        \A char \in MasterLetters :
            IF hasOverride(last.settings, char)
            THEN charToGlyph(font, char) = charToGlyph(AfterOverrideStep, char)
            ELSE Reports(font, char, last.settings[char].lsb, last.settings[char].rsb)

\* C9 witness: H re-asserted to a pair with lsb # rsb that the classification
\* alone would not give, while n keeps a null-sided override
C9_Witness ==
    /\ last.op = "applySousaMethod"
    /\ ~hasOverride(last.settings, "H")
    /\ hasOverride(last.settings, "n")
    /\ last.settings.H.lsb # last.settings.H.rsb
    /\ Reports(font, "H", last.settings.H.lsb, last.settings.H.rsb)
    /\ Reports(font, "n", last.settings.n.lsb, U(17))



---------------------------------------------------------------------------
(* Claims about stripLayoutTables, checked under SpecSan *)

\* the table count at offset 4 and every tag of the directory can be read
DirectoryReadable(buf) ==
    /\ Len(buf) >= 6
    /\ \A i \in 0 .. (buf[5] * 256 + buf[6] - 1) : 12 + 16 * i + 4 <= Len(buf)

\* offset k (from 0) lies in the tag of a directory entry that is exactly one
\* of GPOS, GSUB, GDEF, JSTF, BASE, kern
InListedTag(buf, k) ==
    \E i \in 0 .. (buf[5] * 256 + buf[6] - 1) :
        /\ 12 + 16 * i <= k
        /\ k < 12 + 16 * i + 4
        /\ SubSeq(buf, 12 + 16 * i + 1, 12 + 16 * i + 4) \in
              { <<71, 80, 79, 83>>, <<71, 83, 85, 66>>, <<71, 68, 69, 70>>,
                <<74, 83, 84, 70>>, <<66, 65, 83, 69>>, <<107, 101, 114, 110>> }

\* C10: for a buffer whose table directory is fully readable, the buffer
\* returned has the length of the input and differs from it only in the tag
\* bytes of the entries tagged GPOS, GSUB, GDEF, JSTF, BASE or kern, which
\* read 'void'; every other byte is the input's.
C10_SanitizerRenamesListedTags ==
    (last.op = "stripLayoutTables" /\ DirectoryReadable(buffer)) =>
        /\ Len(clean.bytes) = Len(buffer)
        /\ \A k \in 0 .. (Len(buffer) - 1) :
              clean.bytes[k + 1] =
                  IF InListedTag(buffer, k)
                  THEN <<118, 111, 105, 100>>[((k - 12) % 16) + 1]
                  ELSE buffer[k + 1]

\* C10 witness: a directory with 'kern' and 'KERN': the first now reads
\* 'void', the second is kept, and the table data is untouched
C10_Witness ==
    /\ last.op = "stripLayoutTables"
    /\ DirectoryReadable(buffer)
    /\ getUint16(buffer, 4) = 2
    /\ SubSeq(buffer, 13, 16) = TagKern
    /\ SubSeq(buffer, 29, 32) = TagKERN
    /\ SubSeq(clean.bytes, 13, 16) = TagVoid
    /\ SubSeq(clean.bytes, 29, 32) = TagKERN
    /\ SubSeq(clean.bytes, 45, 48) = TagGSUB

\* a read of the call fails: the table count at offset 4, or the tag of one
\* of the entries the count announces, lies past the end of the buffer
ReadFails(buf) == ~DirectoryReadable(buf)

\* entry i of the directory was read before the failing read and carries a
\* listed tag, so that the working copy was overwritten there
OverwrittenBeforeFailure(buf) ==
    /\ Len(buf) >= 16
    /\ ReadFails(buf)
    /\ InListedTag(buf, 12)

\* C11: the caller's buffer holds after the call the bytes it held before;
\* and when a read fails (header too short for the table count, or a table
\* count that runs past the end of the buffer) the call returns the caller's
\* buffer itself, with its original bytes, also when listed tags had been
\* overwritten in the working copy before the failing read.
C11_SanitizerKeepsCallerBuffer ==
    last.op = "stripLayoutTables" =>
        /\ buffer = last.before
        /\ ReadFails(last.before) =>
              /\ clean.same
              /\ clean.bytes = last.before

\* C11 witness: a table count of 2 over a buffer cut after the first tag,
\* which is 'GPOS': the first entry was renamed in the working copy, the
\* second read failed, and the bytes returned still read 'GPOS'
C11_Witness ==
    /\ last.op = "stripLayoutTables"
    /\ OverwrittenBeforeFailure(last.before)
    /\ getUint16(last.before, 4) = 2
    /\ SubSeq(last.before, 13, 16) = TagGPOS
    /\ clean.same
    /\ SubSeq(clean.bytes, 13, 16) = TagGPOS

---------------------------------------------------------------------------
(* createFontState: the metrics measured from the glyphs *)

\* a number that may be NaN
Num(v) == [nan |-> FALSE, v |-> v]

NaN == [nan |-> TRUE, v |-> 0]

\* measureMetric's forEach from character i on: best and found so far
RECURSIVE measureFrom(_, _, _, _, _, _)
measureFrom(f, chars, i, type, best, found) ==
    IF i > Len(chars) THEN best
    ELSE LET glyph == charToGlyph(f, chars[i]) IN
         IF Len(glyph.path) > 0
         THEN LET box == getBoundingBox(glyph) IN
              IF type = "max"
              THEN IF ~found \/ box.y2 > best
                   THEN measureFrom(f, chars, i + 1, type, box.y2, TRUE)
                   ELSE measureFrom(f, chars, i + 1, type, best, found)
              ELSE IF ~found \/ box.y1 < best
                   THEN measureFrom(f, chars, i + 1, type, box.y1, TRUE)
                   ELSE measureFrom(f, chars, i + 1, type, best, found)
         ELSE measureFrom(f, chars, i + 1, type, best, found)

\* measureMetric(chars, type, fallback)
measureMetric(f, chars, type, fallback) ==
    MathRound(measureFrom(f, chars, 1, type, fallback, FALSE), 1)

\* the probe letters of the ascender and of the descender
AscenderProbes == <<"d", "h", "l", "b", "k", "H">>

DescenderProbes == <<"p", "q", "y", "g">>

\* mutant of heightOf: the glyph's unicode is not tested
heightOf_anyGlyph(glyph) ==
    LET box == getBoundingBox(glyph)
    IN  IF box.nan THEN NaN ELSE Num(box.y2 - box.y1)

\* if (xGlyph && xGlyph.unicode) metrics.xHeight = box.y2 - box.y1, else the
\* initial 0; NaN - NaN is NaN
heightOf(glyph) ==
    IF glyph.unicode # 0
    THEN LET box == getBoundingBox(glyph)
         IN  IF box.nan THEN NaN ELSE Num(box.y2 - box.y1)
    ELSE Num(0)

\* the metrics object createFontState builds
createFontStateMetrics(f) ==
    [ascender |-> measureMetric(f, AscenderProbes, "max", f.ascender),
     descender |-> measureMetric(f, DescenderProbes, "min", f.descender),
     unitsPerEm |-> f.unitsPerEm,
     xHeight |-> heightOf(charToGlyph(f, "x")),
     capHeight |-> heightOf(charToGlyph(f, "H"))]

---------------------------------------------------------------------------
(* Specification SpecMetrics: createFontState on the fonts of MetricFonts *)

\* a rectangle from (x, lo) to (x + w, hi)
TallPath(x, w, lo, hi) ==
    <<CmdM(x, lo), CmdL(x, hi), CmdL(x + w, hi), CmdL(x + w, lo), CmdZ>>

\* what a font does with a probe letter: it does not map it, maps it to a
\* glyph without outline, or maps it to a glyph with an outline
ProbeStates == {"unmapped", "empty", "outline"}

\* the glyph of a probe letter
ProbeGlyph(name, code, st, path, adv) ==
    Glyph(name, IF st = "unmapped" THEN 0 ELSE code,
          IF st = "outline" THEN path ELSE <<>>, adv)

\* A font for the metrics: .notdef with or without an outline (nd), and the
\* letters d, H, p, x each in one of the ProbeStates.  The declared ascender
\* and descender are 800 and -250; the outlines reach 750 (d), 700 (H, the
\* box (0, 0, 700, 700)), -200 (p), 500 (x) and 600 (.notdef).
MetricFont(nd, sd, sH, sp, sx) ==
    [glyphs |->
        [i \in 0 .. 4 |->
            CASE i = 0 -> Glyph(".notdef", 0,
                                IF nd THEN TallPath(U(50), U(400), 0, U(600)) ELSE <<>>,
                                U(500))
              [] i = 1 -> ProbeGlyph("d", 100, sd, TallPath(U(40), U(450), 0, U(750)), U(560))
              [] i = 2 -> ProbeGlyph("H", 72, sH, TallPath(0, U(700), 0, U(700)), U(760))
              [] i = 3 -> ProbeGlyph("p", 112, sp, TallPath(U(60), U(450), -U(200), U(500)), U(560))
              [] i = 4 -> ProbeGlyph("x", 120, sx, TallPath(U(20), U(460), 0, U(500)), U(500))],
     cmap |->
        [c \in ({"d" : z \in {sd} \ {"unmapped"}} \cup {"H" : z \in {sH} \ {"unmapped"}}
                \cup {"p" : z \in {sp} \ {"unmapped"}} \cup {"x" : z \in {sx} \ {"unmapped"}}) |->
            CASE c = "d" -> 1 [] c = "H" -> 2 [] c = "p" -> 3 [] c = "x" -> 4],
     ascender |-> U(800),
     descender |-> -U(250),
     unitsPerEm |-> U(1000)]

MetricFonts ==
    { MetricFont(nd, sd, sH, sp, sx) :
        nd \in BOOLEAN, sd \in ProbeStates, sH \in ProbeStates,
        sp \in ProbeStates, sx \in ProbeStates }

InitMetrics ==
    /\ font \in MetricFonts
    /\ font0 = font
    /\ last = [op |-> "init"]
    /\ steps = 0
    /\ buffer = NoBuffer
    /\ clean = NoBuffer
    /\ result = NoResult
    /\ lib \in LibsFor(font)

\* createFontState(buffer, MethodType.ORIGINAL), after the parse: the metrics
CreateFontState ==
    /\ last.op = "init"
    /\ result' = [metrics |-> createFontStateMetrics(font)]
    /\ last' = [op |-> "createFontState"]
    /\ steps' = steps + 1
    /\ UNCHANGED <<font, font0, buffer, clean, lib>>

NextMetrics == CreateFontState

SpecMetrics == InitMetrics /\ [][NextMetrics]_vars

---------------------------------------------------------------------------
(* Claims about the metrics, checked under SpecMetrics *)

\* the letter is mapped to a glyph that has an outline
Outlined(f, c) == c \in DOMAIN f.cmap /\ Len(f.glyphs[f.cmap[c]].path) > 0

\* the letters of a probe list that have an outline in the font
OutlinedProbes(f, probes) ==
    {c \in {probes[i] : i \in DOMAIN probes} : Outlined(f, c)}

\* the top and the bottom of the letter's bounding box
TopOf(f, c) == getBoundingBox(f.glyphs[f.cmap[c]]).y2

BottomOf(f, c) == getBoundingBox(f.glyphs[f.cmap[c]]).y1

\* C12: the ascender reported is the greatest y2 over the letters of
\* d, h, l, b, k, H that have an outline in the font, and the declared
\* ascender when none has one; the descender is the least y1 over p, q, y, g,
\* and the declared descender when none has an outline.
C12_MetricsFromProbes ==
    last.op = "createFontState" =>
        /\ LET tall == OutlinedProbes(font, AscenderProbes) IN
           IF tall = {}
           THEN result.metrics.ascender = font.ascender
           ELSE /\ \E c \in tall : result.metrics.ascender = TopOf(font, c)
                /\ \A c \in tall : result.metrics.ascender >= TopOf(font, c)
        /\ LET deep == OutlinedProbes(font, DescenderProbes) IN
           IF deep = {}
           THEN result.metrics.descender = font.descender
           ELSE /\ \E c \in deep : result.metrics.descender = BottomOf(font, c)
                /\ \A c \in deep : result.metrics.descender <= BottomOf(font, c)

\* the part of C12 the program keeps: it holds of every font whose .notdef
\* has no outline
C12_HoldsWithoutNotdefOutline ==
    Len(font.glyphs[0].path) = 0 => C12_MetricsFromProbes

\* the height of the letter's bounding box
HeightOfLetter(f, c) == TopOf(f, c) - BottomOf(f, c)

ReportedHeight(f, c) ==
    IF c \notin DOMAIN f.cmap THEN Num(0)
    ELSE IF Outlined(f, c) THEN Num(HeightOfLetter(f, c))
    ELSE IF lib = "zero" THEN Num(0) ELSE NaN

---------------------------------------------------------------------------
(* Export: names, glyph names, tables                                      *)
(*                                                                         *)
(* The strings the export rewrites are sequences of characters (one-letter *)
(* strings), so that a replace is computed character by character.         *)

Digits == {"0", "1", "2", "3", "4", "5", "6", "7", "8", "9"}

Letters ==
    {"a","b","c","d","e","f","g","h","i","j","k","l","m",
     "n","o","p","q","r","s","t","u","v","w","x","y","z",
     "A","B","C","D","E","F","G","H","I","J","K","L","M",
     "N","O","P","Q","R","S","T","U","V","W","X","Y","Z"}

\* \s, as far as the strings of the model go
Whitespace == {" ", "\t"}

\* str.replace(/[^...]/g, ''): the characters outside keep are dropped
RECURSIVE removeOthers(_, _)
removeOthers(str, keep) ==
    IF str = <<>> THEN <<>>
    ELSE (IF Head(str) \in keep THEN <<Head(str)>> ELSE <<>>)
         \o removeOthers(Tail(str), keep)

\* str.replace(/[^...]/g, '_'): the characters outside keep become '_'
replaceOthers(str, keep) ==
    [i \in DOMAIN str |-> IF str[i] \in keep THEN str[i] ELSE "_"]

\* str.trim()
RECURSIVE trimStart(_)
trimStart(str) ==
    IF str # <<>> /\ Head(str) \in Whitespace THEN trimStart(Tail(str)) ELSE str

RECURSIVE trimEnd(_)
trimEnd(str) ==
    IF str # <<>> /\ str[Len(str)] \in Whitespace
    THEN trimEnd(SubSeq(str, 1, Len(str) - 1)) ELSE str

trim(str) == trimEnd(trimStart(str))

HexDigit(d) ==
    <<"0","1","2","3","4","5","6","7","8","9","A","B","C","D","E","F">>[d + 1]

\* n.toString(16).toUpperCase()
RECURSIVE toHex(_)
toHex(n) ==
    IF n < 16 THEN <<HexDigit(n)>> ELSE toHex(n \div 16) \o <<HexDigit(n % 16)>>

\* n.toString() of an index
RECURSIVE toDecimal(_)
toDecimal(n) ==
    IF n < 10 THEN <<HexDigit(n)>> ELSE toDecimal(n \div 10) \o <<HexDigit(n % 10)>>

\* str.padStart(4, '0')
RECURSIVE padStart4(_)
padStart4(str) == IF Len(str) >= 4 THEN str ELSE padStart4(<<"0">> \o str)

\* the characters /[^a-zA-Z0-9._]/ leaves alone
SafeNameChars == Letters \cup Digits \cup {".", "_"}

\* mutant of ensureGlyphName: the glyph is rebuilt from its name, the outline
\* and the advance width are not carried over
ensureGlyphName_rebuilt(glyph, i) ==
    [glyph EXCEPT !.name = replaceOthers(@, SafeNameChars),
                  !.path = <<>>, !.advanceWidth = 0]

\* the body of ensureGlyphNames' loop for the glyph of index i: a name when
\* it is missing ('uni' + the code point, or 'gid' + the index), then the
\* replacement of every character outside SafeNameChars; name is <<>> for a
\* glyph without name (undefined, null, '')
ensureGlyphName(glyph, i) ==
    LET named == IF trim(glyph.name) = <<>>
                 THEN IF glyph.unicode # 0
                      THEN <<"u", "n", "i">> \o padStart4(toHex(glyph.unicode))
                      ELSE <<"g", "i", "d">> \o toDecimal(i)
                 ELSE glyph.name
        safeName == replaceOthers(named, SafeNameChars)
    IN  [glyph EXCEPT !.name = IF Len(safeName) = 0
                               THEN <<"g", "i", "d">> \o toDecimal(i)
                               ELSE safeName]

\* ensureGlyphNames(font)
ensureGlyphNames(f) ==
    [f EXCEPT !.glyphs = [i \in DOMAIN f.glyphs |-> ensureGlyphName(f.glyphs[i], i)]]

\* the characters /[^a-zA-Z0-9- ]/ leaves alone in a family name
FamilyNameChars == Letters \cup Digits \cup {"-", " "}

\* prepareFontForExport(font, familyName), at the time now (Date.now()):
\* nameStr keeps the characters of FamilyNameChars, psName drops the
\* whitespace of nameStr
prepareFontForExport(f, familyName, now) ==
    LET nameStr == removeOthers(familyName, FamilyNameChars)
        psName == removeOthers(nameStr, FamilyNameChars \ Whitespace)
    IN  [f EXCEPT !.names =
            [fontFamily |-> nameStr,
             fontSubfamily |-> <<"R","e","g","u","l","a","r">>,
             fullName |-> nameStr,
             postScriptName |-> psName,
             uniqueID |-> [prefix |-> "SAAME", psName |-> psName, now |-> now],
             version |-> "Version 1.0 SAAME"]]

\* An object with optional fields (font.tables, a table, font.names) is the
\* function from the names of the fields it has to their values.
has(obj, k) == k \in DOMAIN obj

put(obj, k, v) == [x \in DOMAIN obj \cup {k} |-> IF x = k THEN v ELSE obj[x]]

\* delete obj[k]
remove(obj, k) == [x \in DOMAIN obj \ {k} |-> obj[x]]

\* obj[k] || d, for a number: the default also replaces 0
orDefault(obj, k, d) == IF has(obj, k) /\ obj[k] # 0 THEN obj[k] ELSE d

\* if (!font.tables.t) font.tables.t = {}
ensureTable(tables, t) == IF has(tables, t) THEN tables ELSE put(tables, t, <<>>)

RECURSIVE removeAll(_, _)
removeAll(obj, ks) ==
    IF ks = <<>> THEN obj ELSE removeAll(remove(obj, Head(ks)), Tail(ks))

\* createFontUrl, step 1: kern, gpos, gsub and gdef are deleted
dropLayoutTables(f) ==
    [f EXCEPT !.tables = removeAll(@, <<"kern", "gpos", "gsub", "gdef">>)]

\* downloadFont: kern, gpos and gsub are deleted
dropLayoutTablesForDownload(f) ==
    [f EXCEPT !.tables = removeAll(@, <<"kern", "gpos", "gsub">>)]

\* createFontUrl, step 4: post version 3 and the defaults of its fields
postForPreview(post) ==
    [version |-> 3,
     italicAngle |-> orDefault(post, "italicAngle", 0),
     underlinePosition |-> orDefault(post, "underlinePosition", -100),
     underlineThickness |-> orDefault(post, "underlineThickness", 50),
     isFixedPitch |-> orDefault(post, "isFixedPitch", 0),
     minMemType42 |-> 0, maxMemType42 |-> 0,
     minMemType1 |-> 0, maxMemType1 |-> 0]
    @@ post

\* downloadFont: post version 3, nothing else
postForDownload(post) == put(post, "version", 3)

\* os2.version, usWeightClass, usWidthClass (both exports)
os2Classes(os2) ==
    put(put(put(os2, "version", IF has(os2, "version") THEN os2.version ELSE 1),
            "usWeightClass", orDefault(os2, "usWeightClass", 400)),
        "usWidthClass", orDefault(os2, "usWidthClass", 5))

\* createFontUrl, step 5: also the code page ranges
os2ForPreview(os2) ==
    put(put(os2Classes(os2),
            "ulCodePageRange1", orDefault(os2, "ulCodePageRange1", 1)),
        "ulCodePageRange2", orDefault(os2, "ulCodePageRange2", 0))

\* const ascender = font.ascender !== undefined ? font.ascender : 800
\* (a parsed font has an ascender and a descender: hhea is a required table)
ascenderForPreview(f) == f.ascender

descenderForPreview(f) == f.descender

\* const ascender = font.ascender || 800; const descender = font.descender || -200
ascenderForDownload(f) == IF f.ascender # 0 THEN f.ascender ELSE U(800)

descenderForDownload(f) == IF f.descender # 0 THEN f.descender ELSE -U(200)

\* the vertical metrics written to os2 and hhea
syncVerticalMetrics(tables, ascender, descender) ==
    [tables EXCEPT
        !.os2 = put(put(put(put(put(@, "sTypoAscender", ascender),
                                "sTypoDescender", descender),
                            "sTypoLineGap", 0),
                        "usWinAscent", ascender),
                    "usWinDescent", Abs(descender)),
        !.hhea = put(put(put(@, "ascender", ascender), "descender", descender),
                     "lineGap", 0)]

\* What font.toArrayBuffer() comes back with is the library's matter: a
\* buffer with bytes, a buffer of length 0, no buffer (undefined or null), or
\* an exception.
SerializerOutcomes == {"bytes", "empty", "none", "throws"}

\* the font after the preparation steps of createFontUrl (steps 1 to 6)
prepareForPreview(f, familyName, now) ==
    LET f1 == ensureGlyphNames(prepareFontForExport(dropLayoutTables(f), familyName, now))
        t1 == ensureTable(f1.tables, "post")
        t2 == [t1 EXCEPT !.post = postForPreview(@)]
        t3 == ensureTable(t2, "os2")
        t4 == [t3 EXCEPT !.os2 = os2ForPreview(@)]
        t5 == ensureTable(t4, "hhea")
    IN  [f1 EXCEPT !.tables =
            syncVerticalMetrics(t5, ascenderForPreview(f1), descenderForPreview(f1))]

\* what createFontUrl hands back: the object URL of the blob, or "" from the
\* catch when the serializer threw or the buffer was missing or empty
\* (throw new Error("Generated font buffer is empty")); nothing is thrown to
\* the caller
outcomeOfPreview(ser) ==
    IF ser = "bytes"
    THEN [returned |-> "blob:font", threw |-> FALSE, logged |-> FALSE,
          alerted |-> FALSE, downloaded |-> "nothing"]
    ELSE [returned |-> "", threw |-> FALSE, logged |-> TRUE,
          alerted |-> FALSE, downloaded |-> "nothing"]

\* const familyName = font.names.fontFamily?.en || 'SAAME_Font'
familyNameForDownload(f) ==
    IF has(f.names, "fontFamily") /\ f.names.fontFamily # <<>>
    THEN f.names.fontFamily
    ELSE <<"S", "A", "A", "M", "E", "_", "F", "o", "n", "t">>

\* const exportName = `${familyName} ${suffix}`
exportName(f, suffix) == familyNameForDownload(f) \o <<" ">> \o suffix

\* the font after the preparation steps of downloadFont
prepareForDownload(f, suffix, now) ==
    LET f1 == ensureGlyphNames(prepareFontForExport(dropLayoutTablesForDownload(f),
                                                   exportName(f, suffix), now))
        t1 == ensureTable(f1.tables, "post")
        t2 == [t1 EXCEPT !.post = postForDownload(@)]
        t3 == ensureTable(t2, "os2")
        t4 == [t3 EXCEPT !.os2 = os2Classes(@)]
        t5 == ensureTable(t4, "hhea")
    IN  [f1 EXCEPT !.tables =
            syncVerticalMetrics(t5, ascenderForDownload(f1), descenderForDownload(f1))]

\* what downloadFont does with the serializer's outcome: an exception goes to
\* the catch (console.error, alert); any buffer, empty or missing, is wrapped
\* in a Blob and the link is clicked (an empty file for an empty buffer, the
\* text of String(undefined) for a missing one); it returns undefined
outcomeOfDownload(ser) ==
    IF ser = "throws"
    THEN [returned |-> "undefined", threw |-> FALSE, logged |-> TRUE,
          alerted |-> TRUE, downloaded |-> "nothing"]
    ELSE [returned |-> "undefined", threw |-> FALSE, logged |-> FALSE,
          alerted |-> FALSE,
          downloaded |-> CASE ser = "bytes" -> "font"
                           [] ser = "empty" -> "empty file"
                           [] ser = "none" -> "text file"]

---------------------------------------------------------------------------
(* Specification SpecExport: createFontUrl and downloadFont, in any order  *)

\* number of exports in a run
MaxExports == 2

\* glyph names as the font gives them: one with a period, none, whitespace,
\* one with a hyphen, one with a character outside ASCII, a plain one
GivenNames ==
    <<<<".", "n", "o", "t", "d", "e", "f">>, <<>>, <<" ">>,
      <<"A", "-", "a", "c">>, <<"e", "U+00E9">>, <<"H">>>>

\* the glyphs of an export font: index, code point (0: none), outline
ExportGlyphs(named, dx) ==
    [i \in 0 .. 5 |->
        Glyph(IF named THEN GivenNames[i + 1] ELSE <<>>,
              <<0, 65, 0, 193, 233, 72>>[i + 1],
              IF i = 2 THEN <<>> ELSE BoxPath(U(5 + i) + dx, U(40), U(70)),
              U(60 + i))]

\* font.tables as parsed: with layout tables and metrics of its own, or with
\* none of the optional tables
TablesFull ==
    [kern |-> [n |-> 1], gpos |-> [n |-> 1], gsub |-> [n |-> 1], gdef |-> [n |-> 1],
     post |-> [version |-> 2, italicAngle |-> 0, underlinePosition |-> -75,
               underlineThickness |-> 0],
     os2 |-> [version |-> 4, usWeightClass |-> 700, usWidthClass |-> 0,
              sTypoAscender |-> U(750), sTypoLineGap |-> U(90)],
     hhea |-> [ascender |-> U(900), descender |-> -U(300), lineGap |-> U(90)]]

TablesBare == [hhea |-> [ascender |-> U(900), descender |-> -U(300), lineGap |-> U(90)]]

\* font.names as parsed: a family name, or none
NamesGiven == [fontFamily |-> <<"M", "y", "_", "F">>, fullName |-> <<"M", "y", "_", "F">>]

NamesNone == <<>>

ExportFonts ==
    { [glyphs |-> ExportGlyphs(named, dx),
       cmap |-> [c \in {"A", "U+00C1", "U+00E9", "H"} |->
                    CASE c = "A" -> 1 [] c = "U+00C1" -> 3 [] c = "U+00E9" -> 4 [] c = "H" -> 5],
       names |-> nm, tables |-> tb, ascender |-> asc, descender |-> desc] :
        named \in BOOLEAN, dx \in {0}, nm \in {NamesGiven, NamesNone},
        tb \in {TablesFull, TablesBare},
        asc \in {U(800), 0}, desc \in {-U(200), 0} }

\* the family names createFontState passes (`${baseName}-${timestamp}`), and
\* one with characters that are stripped
FamilyNames == {<<"T", "r", "-", "7">>, <<"M", "y", " ", "F", "_", "!">>}

\* the suffixes of downloadFont (the method type)
Suffixes == {<<"T", "R", "A", "C", "Y">>}

InitExport ==
    /\ font \in ExportFonts
    /\ font0 = font
    /\ last = [op |-> "init", arg |-> <<>>]
    /\ steps = 0
    /\ buffer = NoBuffer
    /\ clean = NoBuffer
    /\ result = NoResult
    /\ lib = "zero"

\* createFontUrl(font, familyName), with the serializer's outcome
CreateFontUrl ==
    /\ steps < MaxExports
    /\ \E familyName \in FamilyNames, ser \in SerializerOutcomes :
        /\ font' = prepareForPreview(font, familyName, steps)
        /\ result' = outcomeOfPreview(ser)
        /\ last' = [op |-> "createFontUrl", arg |-> familyName, ser |-> ser,
                    before |-> font, prev |-> [op |-> last.op, arg |-> last.arg]]
    /\ steps' = steps + 1
    /\ UNCHANGED <<font0, buffer, clean, lib>>

\* downloadFont(font, suffix), with the serializer's outcome
DownloadFont ==
    /\ steps < MaxExports
    /\ \E suffix \in Suffixes, ser \in SerializerOutcomes :
        /\ font' = prepareForDownload(font, suffix, steps)
        /\ result' = outcomeOfDownload(ser)
        /\ last' = [op |-> "downloadFont", arg |-> suffix, ser |-> ser,
                    before |-> font, prev |-> [op |-> last.op, arg |-> last.arg]]
    /\ steps' = steps + 1
    /\ UNCHANGED <<font0, buffer, clean, lib>>

NextExport == CreateFontUrl \/ DownloadFont

SpecExport == InitExport /\ [][NextExport]_vars

---------------------------------------------------------------------------
(* Claims about the exports, checked under SpecExport *)

\* the last step was an export
Exported == last.op \in {"createFontUrl", "downloadFont"}

\* C14: after every export, preview or file, os2.sTypoAscender,
\* os2.usWinAscent and hhea.ascender equal the document's ascender,
\* os2.sTypoDescender and hhea.descender its descender, os2.usWinDescent the
\* absolute value of the descender, and both line gaps are 0, whatever the
\* ascender and the descender are, 0 included.
C14_VerticalMetricsSynchronized ==
    Exported =>
        /\ font.tables.os2.sTypoAscender = font.ascender
        /\ font.tables.os2.usWinAscent = font.ascender
        /\ font.tables.hhea.ascender = font.ascender
        /\ font.tables.os2.sTypoDescender = font.descender
        /\ font.tables.hhea.descender = font.descender
        /\ font.tables.os2.usWinDescent = Abs(font.descender)
        /\ font.tables.os2.sTypoLineGap = 0
        /\ font.tables.hhea.lineGap = 0

\* the last two steps were the same export with the same argument
SameExportTwice ==
    /\ Exported
    /\ last.prev = [op |-> last.op, arg |-> last.arg]

\* what an export settles of a font, the time stamp of the unique identifier
\* aside: family, full and PostScript name, the glyph names, post, os2, hhea
ExportedFields(f) ==
    [fontFamily |-> f.names.fontFamily,
     fullName |-> f.names.fullName,
     postScriptName |-> f.names.postScriptName,
     glyphNames |-> [i \in DOMAIN f.glyphs |-> f.glyphs[i].name],
     post |-> f.tables.post, os2 |-> f.tables.os2, hhea |-> f.tables.hhea]

\* C15: running the same export a second time (the preview with the same
\* family name, the file export with the same suffix) leaves the names, the
\* glyph names and the post, os2 and hhea fields as the first run left them.
C15_ExportIdempotent ==
    SameExportTwice => ExportedFields(font) = ExportedFields(last.before)

\* C16: however many exports ran, previews and file exports in any order,
\* every glyph has the path coordinates and the advance width it had before
\* the first of them (as the last spacing method left them).
C16_ExportsKeepOutlines ==
    Exported =>
        \A i \in DOMAIN font.glyphs :
            /\ font.glyphs[i].path = font0.glyphs[i].path
            /\ font.glyphs[i].advanceWidth = font0.glyphs[i].advanceWidth

\* C16 witness: a preview export then a file export, which renamed glyphs
\* that have an outline
C16_Witness ==
    /\ last.op = "downloadFont"
    /\ last.prev.op = "createFontUrl"
    /\ steps = 2
    /\ \E i \in DOMAIN font.glyphs :
          /\ font.glyphs[i].name # font0.glyphs[i].name
          /\ Len(font.glyphs[i].path) > 0

\* C17: after an export every glyph has a name that is not empty and is made
\* of letters, digits and underscores only, whatever its name was before
\* (none, whitespace, a name with '.', '-' or a character outside ASCII).
C17_GlyphNamesAlphanumeric ==
    Exported =>
        \A i \in DOMAIN font.glyphs :
            /\ font.glyphs[i].name # <<>>
            /\ \A k \in DOMAIN font.glyphs[i].name :
                  font.glyphs[i].name[k] \in Letters \cup Digits \cup {"_"}

\* the export told its caller of a failure: an exception reached the
\* caller, or an alert was raised, or the empty string came back for a URL
FailureReported == result.threw \/ result.alerted \/ result.returned = ""

\* C18: when the serializer yields an empty buffer or none, the export,
\* preview or file, reports the failure as an error and hands back no
\* binary and no URL.
C18_EmptyBufferIsHardError ==
    (Exported /\ last.ser \in {"empty", "none"}) =>
        /\ FailureReported
        /\ result.returned # "blob:font"
        /\ result.downloaded = "nothing"

---------------------------------------------------------------------------
(* Further claims about setGlyphSB, checked under SpecSB *)

\* C19: a null side is left unchanged.  After a call with an lsb and a null
\* rsb the right side bearing advanceWidth - x2 is what it was before the
\* call; after a call with a null lsb and an rsb the path and the left side
\* bearing are what they were.
C19_NullSideUnchanged ==
    last.op = "setGlyphSB" =>
        /\ (last.lsb # Null /\ last.rsb = Null)
              => rawRsb(LastGlyph) = rawRsb(LastGlyphBefore)
        /\ (last.lsb = Null /\ last.rsb # Null)
              => /\ LastGlyph.path = LastGlyphBefore.path
                 /\ rawLsb(LastGlyph) = rawLsb(LastGlyphBefore)

---------------------------------------------------------------------------
(* Further claims about the spacing methods, checked under Spec *)

\* the letters that both methods name (each is a key of the diacritic map and
\* of the topology and has a rule of Method A) and that the font does not map
UnmappedLetters(f) == BaseLetters \ DOMAIN f.cmap

\* C20: a character that the font does not map contributes nothing.  The
\* glyph the lookup falls back to for such a character, glyph 0 (.notdef),
\* which no character of the font maps to, has after a spacing method the
\* path and the advance width it had before.
C20_MissingGlyphContributesNothing ==
    (MethodApplied /\ UnmappedLetters(last.before) # {}) =>
        /\ font.glyphs[0].path = last.before.glyphs[0].path
        /\ font.glyphs[0].advanceWidth = last.before.glyphs[0].advanceWidth

---------------------------------------------------------------------------
(* Claims C21 and C27 about setGlyphSB, checked under SpecSB *)

\* x1 or x2 of the glyph's bounding box is not a number
box_nan(glyph) == getBoundingBox(glyph).nan

\* C21: when the bounding box of the glyph cannot be computed (x1 or x2 is
\* not a number), setGlyphSB leaves the glyph as it is: path, advance width
\* and stored left side bearing, whatever the targets; the call returns and
\* the font is otherwise untouched.
C21_DegenerateGlyphSkipped ==
    (last.op = "setGlyphSB" /\ box_nan(LastGlyphBefore)) =>
        /\ LastGlyph.path = LastGlyphBefore.path
        /\ LastGlyph.advanceWidth = LastGlyphBefore.advanceWidth
        /\ LastGlyph.leftSideBearing = LastGlyphBefore.leftSideBearing
        /\ font = last.before

\* C21 witness: a call with both targets on a glyph that is not the space,
\* has no outline and, with this build of the library, NaN bounds
C21_Witness ==
    /\ last.op = "setGlyphSB"
    /\ last.lsb # Null
    /\ last.rsb # Null
    /\ lib = "NaN"
    /\ ~(LastGlyphBefore.name = "space" \/ LastGlyphBefore.unicode = 32)
    /\ Len(LastGlyphBefore.path) = 0
    /\ box_nan(LastGlyphBefore)
    /\ LastGlyph.advanceWidth = LastGlyphBefore.advanceWidth

---------------------------------------------------------------------------
(* calculateAverageSB *)

\* the loop of calculateAverageSB from glyph i on: total and count so far;
\* nan once a glyph with NaN bounds was added
RECURSIVE averageFrom(_, _, _, _, _)
averageFrom(f, i, total, count, nan) ==
    IF i \notin DOMAIN f.glyphs THEN [total |-> total, count |-> count, nan |-> nan]
    ELSE LET glyph == f.glyphs[i] IN
         IF glyph.unicode # 0 /\ glyph.name # "space"
         THEN LET box == getBoundingBox(glyph)
                  lsb == box.x1
                  rsb == glyph.advanceWidth - box.x2
              IN  averageFrom(f, i + 1, total + (lsb + rsb), count + 1, nan \/ box.nan)
         ELSE averageFrom(f, i + 1, total, count, nan)

\* calculateAverageSB(font): Math.round(total / (count * 2)), 0 for no glyph
calculateAverageSB(f) ==
    LET sum == averageFrom(f, 0, 0, 0, FALSE)
    IN  IF sum.count > 0
        THEN IF sum.nan THEN NaN ELSE Num(MathRound(sum.total, sum.count * 2))
        ELSE Num(0)

---------------------------------------------------------------------------
(* Specification SpecAverage: the average read before and after a call of  *)
(* setGlyphSB                                                              *)

\* calculateAverageSB(font)
CalculateAverageSB ==
    /\ last.op # "calculateAverageSB"
    /\ result' = [average |-> calculateAverageSB(font)]
    /\ last' = [op |-> "calculateAverageSB"]
    /\ UNCHANGED <<font, font0, steps, buffer, clean, lib>>

NextAverage == CallSetGlyphSB \/ CalculateAverageSB

SpecAverage == InitSB /\ [][NextAverage]_vars

---------------------------------------------------------------------------
(* Claim about calculateAverageSB, checked under SpecAverage *)

\* the glyphs that are mapped to a code point and are not the space, by any
\* of the three signs of it
CountedGlyphs(f) ==
    {i \in DOMAIN f.glyphs :
        /\ f.glyphs[i].unicode # 0
        /\ ~(\/ f.glyphs[i].name = "space"
             \/ f.glyphs[i].unicode = 32
             \/ includesSpace(f.glyphs[i].name))}

\* the sum of lsb + rsb over a set of glyphs
RECURSIVE SumSB(_, _)
SumSB(f, is) ==
    IF is = {} THEN 0
    ELSE LET i == CHOOSE x \in is : TRUE
         IN  rawLsb(f.glyphs[i]) + rawRsb(f.glyphs[i]) + SumSB(f, is \ {i})

\* C22: calculateAverageSB returns the mean of (lsb + rsb) / 2 over the
\* glyphs that have a code point and are not the space (name 'space', code
\* point 32, or a name containing 'space'), rounded to the nearest integer,
\* and 0 when there is no such glyph.
C22_AverageOverNonSpaceGlyphs ==
    last.op = "calculateAverageSB" =>
        result.average =
            IF CountedGlyphs(font) = {} THEN Num(0)
            ELSE Num(MathRound(SumSB(font, CountedGlyphs(font)),
                               2 * Cardinality(CountedGlyphs(font))))

---------------------------------------------------------------------------
(* Claims about the re-assertion of Method B's masters, checked under Spec *)

\* the diacritic variants of the master letter that the font maps
MappedVariants(f, master) ==
    {relatedOf(master)[k] : k \in DOMAIN relatedOf(master)} \cap DOMAIN f.cmap

\* the pair the classification table resolves for a letter of TOPOLOGY
TablePair(settings, char) ==
    [lsb |-> CategoryValue(settings, isUpper(char), TOPOLOGY[char].l),
     rsb |-> CategoryValue(settings, isUpper(char), TOPOLOGY[char].r)]

\* the re-assertion changed no glyph but those of the masters H, O, n, o
OnlyMastersReasserted ==
    \A i \in DOMAIN font.glyphs :
        i \notin {charToGlyphIndex(font, m) : m \in MasterLetters} =>
            font.glyphs[i] = AfterOverrideStep.glyphs[i]

\* a master's variant without an override reports the table's pair
VariantsKeepTablePair ==
    \A m \in MasterLetters :
        \A d \in MappedVariants(font, m) :
            ~hasOverride(last.settings, d) =>
                Reports(font, d, TablePair(last.settings, m).lsb,
                                 TablePair(last.settings, m).rsb)

\* the master and its variant end with different right side bearings
RightSidesDiffer(m) ==
    \A d \in MappedVariants(font, m) :
        (/\ last.settings[m].lsb # last.settings[m].rsb
         /\ ~hasOverride(last.settings, m)
         /\ ~hasOverride(last.settings, d)) =>
            getCharMetrics(font, m).rsb # getCharMetrics(font, d).rsb

\* C23 as stated: Method B's re-assertion changes only the master glyphs
\* H, O, n, o; every diacritic variant of a master keeps the pair resolved
\* from the classification table; and whenever a master's lsb differs from
\* its rsb, the master and its variants end with different right side
\* bearings, for each of the four masters.
C23_ReassertionSplitsEveryMaster ==
    last.op = "applySousaMethod" =>
        /\ OnlyMastersReasserted
        /\ VariantsKeepTablePair
        /\ \A m \in MasterLetters : RightSidesDiffer(m)

\* C23, amended: Method B's re-assertion changes only the master glyphs
\* H, O, n, o; every diacritic variant of a master keeps the pair resolved
\* from the classification table; the master and its variants end with
\* different right side bearings when the master's lsb differs from its rsb
\* for H, O and o, whose table pair is (lsb, lsb), whereas the table pair of
\* n (Straight, Arch) is the master pair (n.lsb, n.rsb) itself, so n and its
\* variants end with the same side bearings.
C23_ReassertionNotPropagated ==
    last.op = "applySousaMethod" =>
        /\ OnlyMastersReasserted
        /\ VariantsKeepTablePair
        /\ \A m \in {"H", "O", "o"} : RightSidesDiffer(m)
        /\ \A d \in MappedVariants(font, "n") :
              (~hasOverride(last.settings, "n") /\ ~hasOverride(last.settings, d)) =>
                  getCharMetrics(font, "n") = getCharMetrics(font, d)

\* C23 witness: H re-asserted to (8, 30) while its variant reports (8, 8),
\* and n re-asserted to (16, 6) with its variant reporting the same
C23_Witness ==
    /\ last.op = "applySousaMethod"
    /\ last.settings.overrides = <<>>
    /\ Reports(font, "H", U(8), U(30))
    /\ Reports(font, "U+0124", U(8), U(8))
    /\ Reports(font, "n", U(16), U(6))
    /\ Reports(font, "U+00F1", U(16), U(6))

---------------------------------------------------------------------------
(* Specification SpecReapply: a spacing method applied to a font that a
   method has already spaced *)

\* number of method applications in one behaviour
MaxReapply == 2

\* the fonts: outlines on and off the integer grid, and one whose .notdef
\* and space have no outline
ReapplyFonts ==
    {FontOf(0, TRUE, TRUE), FontOf(1, TRUE, TRUE), FontOf(0, FALSE, FALSE)}

\* the settings: both master sets, without overrides and with null-sided ones
ReapplySettings ==
    {st \in SettingsSet :
        \/ st.overrides = <<>>
        \/ \E i \in DOMAIN st.overrides : st.overrides[i].lsb = Null}

InitReapply ==
    /\ font \in ReapplyFonts
    /\ font0 = font
    /\ last = [op |-> "init"]
    /\ steps = 0
    /\ buffer = NoBuffer
    /\ clean = NoBuffer
    /\ result = NoResult
    /\ lib = IF hasEmptyPath(font) THEN "NaN" ELSE "zero"

\* applyTracyMethod(font, settings), whatever was applied before
ReapplyTracy ==
    /\ steps < MaxReapply
    /\ \E settings \in ReapplySettings :
        /\ font' = applyTracyMethod(font, settings)
        /\ last' = [op |-> "applyTracyMethod", settings |-> settings,
                    before |-> font, prev |-> last.op]
    /\ steps' = steps + 1
    /\ UNCHANGED <<font0, buffer, clean, result, lib>>

\* applySousaMethod(font, settings), whatever was applied before
ReapplySousa ==
    /\ steps < MaxReapply
    /\ \E settings \in ReapplySettings :
        /\ font' = applySousaMethod(font, settings)
        /\ last' = [op |-> "applySousaMethod", settings |-> settings,
                    before |-> font, prev |-> last.op]
    /\ steps' = steps + 1
    /\ UNCHANGED <<font0, buffer, clean, result, lib>>

NextReapply == ReapplyTracy \/ ReapplySousa

SpecReapply == InitReapply /\ [][NextReapply]_vars

\* the last method applied, with the same settings, to the font as loaded
AppliedAlone ==
    IF last.op = "applyTracyMethod"
    THEN applyTracyMethod(font0, last.settings)
    ELSE applySousaMethod(font0, last.settings)

\* the letters A-Z, a-z and their diacritic variants that the font maps
MappedLetters(f) ==
    (BaseLetters \cup UNION {MappedVariants(f, c) : c \in BaseLetters})
        \cap DOMAIN f.cmap

\* C24: prior-state independence.  The side bearings reported for a mapped,
\* non-degenerate letter or diacritic variant after a method has been
\* applied are those the same method with the same settings gives on the
\* font as loaded, whatever was applied in between: Method A then Method B
\* gives what Method B alone gives, and a method applied twice what it gives
\* applied once.
C24_PriorStateIndependence ==
    last.op \in {"applyTracyMethod", "applySousaMethod"} =>
        \A c \in MappedLetters(font) :
            ~isNaN(getBoundingBox(charToGlyph(font, c))) =>
                getCharMetrics(font, c) = getCharMetrics(AppliedAlone, c)

\* C24 witness: Method B applied after Method A with other master values;
\* H reports Method B's master pair, which is not the pair it had before
C24_Witness ==
    /\ steps = 2
    /\ last.op = "applySousaMethod"
    /\ last.prev = "applyTracyMethod"
    /\ last.settings.H.lsb = U(8)
    /\ Reports(last.before, "H", U(80), U(80))
    /\ Reports(font, "H", U(8), U(30))
    /\ Reports(AppliedAlone, "H", U(8), U(30))

---------------------------------------------------------------------------
(* Claims about Method B's edge categories, checked under Spec *)

\* the letters of TOPOLOGY that the font maps
MappedBaseLetters(f) == BaseLetters \cap DOMAIN f.cmap

\* C25: Method B shared-edge rule.  After applySousaMethod without overrides
\* any two mapped letters of the same case whose classification gives the
\* same edge category on a side report the same side bearing on that side,
\* the master letters included.
C25_SharedEdgeSharedValue ==
    (last.op = "applySousaMethod" /\ last.settings.overrides = <<>>) =>
        \A c1, c2 \in MappedBaseLetters(font) :
            isUpper(c1) = isUpper(c2) =>
                /\ TOPOLOGY[c1].l = TOPOLOGY[c2].l =>
                        getCharMetrics(font, c1).lsb = getCharMetrics(font, c2).lsb
                /\ TOPOLOGY[c1].r = TOPOLOGY[c2].r =>
                        getCharMetrics(font, c1).rsb = getCharMetrics(font, c2).rsb

---------------------------------------------------------------------------
(* Claims about the defaults of the export, checked under SpecExport *)

\* the fields with a default, by table
PostDefaults ==
    [italicAngle |-> 0, underlinePosition |-> -100, underlineThickness |-> 50,
     isFixedPitch |-> 0]

Os2Defaults ==
    [usWeightClass |-> 400, usWidthClass |-> 5, ulCodePageRange1 |-> 1,
     ulCodePageRange2 |-> 0]

\* the table of the font, an object without fields when it is absent
TableOf(f, t) == IF has(f.tables, t) THEN f.tables[t] ELSE <<>>

\* the field has the value it had before when it had one, the default otherwise
KeptOrDefault(t, k, d) ==
    TableOf(font, t)[k] =
        IF has(TableOf(last.before, t), k) THEN TableOf(last.before, t)[k] ELSE d

\* C26: export defaults are populated only when absent.  After the preview
\* export a field of post (italic angle, underline position and thickness,
\* fixed-pitch flag) or of os2 (weight class, width class, code page ranges)
\* that had a value before, 0 included, has that value; a field that was
\* absent has the default.
C26_DefaultsOnlyWhenAbsent ==
    last.op = "createFontUrl" =>
        /\ \A k \in DOMAIN PostDefaults : KeptOrDefault("post", k, PostDefaults[k])
        /\ \A k \in DOMAIN Os2Defaults : KeptOrDefault("os2", k, Os2Defaults[k])

---------------------------------------------------------------------------
(* cleanMetrics *)

\* The code points of the categories P (punctuation) and S (symbol) among
\* ASCII and the code points of the model's glyphs: ! to /, : to @, [ to `,
\* { to ~, and U+2423 (open box, So)
PunctuationCodes == (33 .. 47) \cup (58 .. 64) \cup (91 .. 96) \cup (123 .. 126) \cup {9251}

\* mutant of isPunctuation: no glyph is taken for punctuation
isPunctuation_never(glyph) == FALSE

\* if (glyph.unicode) { if (/[\p{P}\p{S}]/u.test(char)) isPunctuation = true }
isPunctuation(glyph) == glyph.unicode # 0 /\ glyph.unicode \in PunctuationCodes

\* mutant of shiftToOrigin: xMin, xMax, yMin, yMax are not deleted
shiftToOrigin_cacheKept(glyph, shiftX) ==
    IF shiftX # 0 THEN [glyph EXCEPT !.path = shiftPath(@, shiftX)] ELSE glyph

\* if (shiftX !== 0 && !isNaN(shiftX)): every x coordinate is shifted and the
\* cached xMin, xMax, yMin, yMax are deleted
shiftToOrigin(glyph, shiftX) ==
    IF shiftX # 0
    THEN [glyph EXCEPT !.path = shiftPath(@, shiftX), !.cached = <<>>]
    ELSE glyph

\* the body of the loop of cleanMetrics for one glyph
cleanGlyph(glyph) ==
    IF isSpace(glyph) THEN glyph
    ELSE IF isPunctuation(glyph) THEN glyph
    ELSE IF glyph.unicode # 0 \/ glyph.name # ""
    THEN LET bounds == getBoundingBox(glyph) IN
         IF isNaN(bounds) THEN glyph
         ELSE LET width == bounds.x2 - bounds.x1 IN
              IF width >= 0
              THEN [shiftToOrigin(glyph, -bounds.x1) EXCEPT
                        !.advanceWidth = width, !.leftSideBearing = 0]
              ELSE glyph
    ELSE glyph

\* cleanMetrics(font): the font after the call; the kern and gpos tables are
\* deleted at the end
cleanMetrics(f) ==
    [f EXCEPT !.glyphs = [i \in DOMAIN @ |-> cleanGlyph(@[i])],
              !.tables = removeAll(@, <<"kern", "gpos">>)]

---------------------------------------------------------------------------
(* Specification SpecClean: cleanMetrics and calls of setGlyphSB *)

\* the glyphs of FontOf, then a period and a plus sign
CleanGlyphsOf(dx, outl, named) ==
    GlyphsOf(dx, outl, named) \o
    <<Glyph(NameOf(named, "period"), 46, BoxPath(U(4) + dx, U(6), U(6)), U(15)),
      Glyph(NameOf(named, "plus"), 43, BoxPath(U(5) + dx, U(30), U(30)), U(40))>>

\* font.tables as parsed: with the layout tables, or without
CleanTables ==
    { [kern |-> [n |-> 1], gpos |-> [n |-> 1], gsub |-> [n |-> 1],
       hhea |-> [ascender |-> U(900)]],
      [hhea |-> [ascender |-> U(900)]] }

CleanFontOf(dx, outl, named, tables) ==
    [glyphs |-> [i \in 0 .. (Len(CleanGlyphsOf(dx, outl, named)) - 1) |->
                    CleanGlyphsOf(dx, outl, named)[i + 1]],
     cmap |-> CmapOf @@ ("." :> 19 @@ "+" :> 20),
     tables |-> tables]

CleanFonts ==
    {CleanFontOf(dx, outl, named, tb) :
        dx \in InitShifts, outl \in BOOLEAN, named \in BOOLEAN, tb \in CleanTables}

InitClean ==
    /\ font \in CleanFonts
    /\ font0 = font
    /\ last = [op |-> "init"]
    /\ steps = 0
    /\ buffer = NoBuffer
    /\ clean = NoBuffer
    /\ result = NoResult
    /\ lib \in LibsFor(font)

\* cleanMetrics(font)
CleanMetrics ==
    /\ last.op # "cleanMetrics"
    /\ font' = cleanMetrics(font)
    /\ last' = [op |-> "cleanMetrics", before |-> font]
    /\ UNCHANGED <<font0, steps, buffer, clean, result, lib>>

\* number of setGlyphSB calls around cleanMetrics in one behaviour
MaxCleanCalls == 1

\* the characters and the targets of those calls: a letter, a digit and a
\* period; null and a side bearing of 50
CleanCallChars == {"H", "1", "."}

CleanTargets == {Null, Some(U(50))}

\* one call setGlyphSB(font, char, lsb, rsb), before or after cleanMetrics
SetGlyphSBAroundClean ==
    /\ steps < MaxCleanCalls
    /\ \E char \in CleanCallChars, lsb \in CleanTargets, rsb \in CleanTargets :
        /\ font' = setGlyphSB(font, char, lsb, rsb)
        /\ last' = [op |-> "setGlyphSB", char |-> char, lsb |-> lsb, rsb |-> rsb,
                    before |-> font, again |-> FALSE]
    /\ steps' = steps + 1
    /\ UNCHANGED <<font0, buffer, clean, result, lib>>

NextClean == CleanMetrics \/ SetGlyphSBAroundClean

SpecClean == InitClean /\ [][NextClean]_vars

---------------------------------------------------------------------------
(* Claims about the cached bounding box, checked under SpecClean *)

\* the glyph setGlyphSB was last called on
TargetIndex == charToGlyphIndex(font, last.char)

\* C27: cache invalidation.  A glyph whose path is not the one it was loaded
\* with (setGlyphSB shifted it, or cleanMetrics did) has no cached xMin,
\* xMax, yMin, yMax; and the advance width the call wrote is derived from
\* the box of the path as it is after the call: box.x2 + rsb after
\* setGlyphSB with a right target, box.x2 - box.x1 after cleanMetrics.
C27_CacheInvalidatedOnShift ==
    /\ \A i \in DOMAIN font.glyphs :
          font.glyphs[i].path # font0.glyphs[i].path => font.glyphs[i].cached = <<>>
    /\ (/\ last.op = "setGlyphSB"
        /\ last.rsb # Null
        /\ font.glyphs[TargetIndex] # last.before.glyphs[TargetIndex]) =>
            font.glyphs[TargetIndex].advanceWidth =
                getBoundingBox(font.glyphs[TargetIndex]).x2 + last.rsb[1]
    /\ last.op = "cleanMetrics" =>
          \A i \in DOMAIN font.glyphs :
              font.glyphs[i] # last.before.glyphs[i] =>
                  font.glyphs[i].advanceWidth =
                      getBoundingBox(font.glyphs[i]).x2 - getBoundingBox(font.glyphs[i]).x1

\* C27 witness: setGlyphSB moved H to a left side bearing of 50, cleanMetrics
\* then moved it to 0; H has no cached box and an advance width of 44, its
\* ink width, while the period, which was never moved, still has its cached box
C27_Witness ==
    /\ last.op = "cleanMetrics"
    /\ rawLsb(last.before.glyphs[2]) = U(50)
    /\ rawLsb(font.glyphs[2]) = 0
    /\ font.glyphs[2].cached = <<>>
    /\ font.glyphs[2].advanceWidth = U(44)
    /\ font.glyphs[19].cached # <<>>
    /\ font.glyphs[19].path = font0.glyphs[19].path

---------------------------------------------------------------------------
(* Claims about the reach of an override, checked under Spec *)

\* the last method applied to the same font with the same masters and no
\* overrides
WithoutOverrides ==
    IF last.op = "applyTracyMethod"
    THEN applyTracyMethod(last.before, [last.settings EXCEPT !.overrides = <<>>])
    ELSE applySousaMethod(last.before, [last.settings EXCEPT !.overrides = <<>>])

\* the glyphs of the characters that have an override
OverriddenGlyphs ==
    {charToGlyphIndex(font, last.settings.overrides[i].char) :
        i \in DOMAIN last.settings.overrides}

\* C28: overrides apply to the exact character only.  After either method a
\* glyph that is not the glyph of a character with an override is what the
\* method gives without any override; in particular a diacritic variant of
\* an overridden base letter, without an override of its own, keeps the
\* rule-derived pair of the base letter.
C28_OverrideExactCharacterOnly ==
    last.op \in {"applyTracyMethod", "applySousaMethod"} =>
        /\ \A i \in DOMAIN font.glyphs \ OverriddenGlyphs :
              font.glyphs[i] = WithoutOverrides.glyphs[i]
        /\ \A base \in BaseLetters :
              hasOverride(last.settings, base) =>
                  \A d \in MappedVariants(font, base) :
                      ~hasOverride(last.settings, d) =>
                          getCharMetrics(font, d) = getCharMetrics(WithoutOverrides, d)

\* C28 witness: Method B with an override of n's right side: n reports
\* (16, 17), its variant the pair (16, 6) of the classification
C28_Witness ==
    /\ last.op = "applySousaMethod"
    /\ hasOverride(last.settings, "n")
    /\ ~hasOverride(last.settings, "U+00F1")
    /\ Reports(font, "n", U(16), U(17))
    /\ Reports(font, "U+00F1", U(16), U(6))
    /\ Reports(WithoutOverrides, "U+00F1", U(16), U(6))

---------------------------------------------------------------------------
(* Claims about the two export paths, checked under SpecExport *)

\* the document the file export started from, prepared by the preview export
\* with the family name the file export gave it
PreviewOfSame ==
    prepareForPreview(last.before, exportName(last.before, last.arg), steps - 1)

\* C29: the two export paths prepare the document identically.  After the
\* file export the document has the tables (which ones, and every field of
\* post, os2 and hhea) that the preview export leaves on the same document
\* under the same family name: no kern, gpos, gsub and gdef, the post
\* defaults, the code page range defaults and the vertical metrics.
C29_ExportPathsAgree ==
    last.op = "downloadFont" => font.tables = PreviewOfSame.tables

---------------------------------------------------------------------------
(* Claims about cleanMetrics, checked under SpecClean *)

\* the glyph is the space: by name, by code point, or by a name containing
\* 'space'
IsSpaceGlyph(g) == g.name = "space" \/ g.unicode = 32 \/ includesSpace(g.name)

\* the glyph's code point is punctuation or a symbol
IsPunctuationGlyph(g) == g.unicode \in PunctuationCodes

\* C30: after cleanMetrics every glyph that is not the space, not
\* punctuation or a symbol, has a code point or a name, and has a valid
\* bounding box has lsb = 0 and rsb = 0, its advance width being its ink
\* width; the space and every punctuation or symbol glyph keep their path
\* and their advance width; the kern and gpos tables are gone.
C30_CleanMetricsZeroesLettersAndDigits ==
    last.op = "cleanMetrics" =>
        /\ \A i \in DOMAIN font.glyphs :
              LET before == last.before.glyphs[i]
                  after == font.glyphs[i]
              IN  IF IsSpaceGlyph(before) \/ IsPunctuationGlyph(before)
                  THEN /\ after.path = before.path
                       /\ after.advanceWidth = before.advanceWidth
                  ELSE (/\ (before.unicode # 0 \/ before.name # "")
                        /\ ~isNaN(getBoundingBox(before))) =>
                            /\ rawLsb(after) = 0
                            /\ rawRsb(after) = 0
                            /\ after.advanceWidth =
                                  getBoundingBox(before).x2 - getBoundingBox(before).x1
        /\ ~has(font.tables, "kern")
        /\ ~has(font.tables, "gpos")

\* C30 witness: cleanMetrics on a font with kern and gpos tables: H (lsb 8,
\* ink width 44, advance 60) and the digit one end with lsb 0 and the ink
\* width as advance, the period and the plus sign stay where they were
C30_Witness ==
    /\ last.op = "cleanMetrics"
    /\ has(last.before.tables, "kern")
    /\ has(font.tables, "gsub")
    /\ rawLsb(last.before.glyphs[2]) = U(8)
    /\ last.before.glyphs[2].advanceWidth = U(60)
    /\ rawLsb(font.glyphs[2]) = 0
    /\ font.glyphs[2].advanceWidth = U(44)
    /\ font.glyphs[17].advanceWidth = U(20)
    /\ rawLsb(font.glyphs[19]) = U(4)
    /\ font.glyphs[20].advanceWidth = U(40)

====
